---- MODULE Spec2Model ----
(***************************************************************************)
(* Model of the trading core of CryptoFuturesBot:                          *)
(*   - part1_core/signal_generator.py   generate_signals                   *)
(*   - utils/risk_management.py, core/risk_manager.py,                     *)
(*     strategies/base_strategy.py      should_exit / should_exit_position *)
(*   - services/portfolio_manager.py    PortfolioManager (the ledger)      *)
(*                                                                         *)
(* Python floats are modelled as exact rationals <<numerator, denominator>>*)
(* in lowest terms with a positive denominator; where the code only adds,  *)
(* subtracts or multiplies values that the model draws from the integers,  *)
(* plain integers are used.  Wall-clock fields (timestamp, entry_time,     *)
(* last_update) are left out.                                              *)
(***************************************************************************)
EXTENDS Integers, Sequences, FiniteSets, TLC

VARIABLES positions, trade_history, balance, equity, peak_equity,
          max_drawdown, data_file, loaded, last,
          batch, signals,
          risk,
          threads,
          retrying,
          bot,
          manager

ledgerVars == <<positions, trade_history, balance, equity, peak_equity,
                max_drawdown, data_file, loaded, last>>
signalVars == <<batch, signals>>
riskVars == <<risk>>
threadVars == <<threads>>
retryVars == <<retrying>>
botVars == <<bot>>
managerVars == <<manager>>
vars == <<positions, trade_history, balance, equity, peak_equity,
          max_drawdown, data_file, loaded, last, batch, signals, risk,
          threads, retrying, bot, manager>>

\* what the calls of one component leave alone
notLedgerVars == <<signalVars, riskVars, threadVars, retryVars, botVars, managerVars>>
notSignalVars == <<ledgerVars, riskVars, threadVars, retryVars, botVars, managerVars>>
notRiskVars == <<ledgerVars, signalVars, threadVars, retryVars, botVars, managerVars>>
notRetryVars == <<ledgerVars, signalVars, riskVars, threadVars, botVars, managerVars>>
notManagerVars == <<ledgerVars, signalVars, riskVars, threadVars, retryVars, botVars>>

----------------------------------------------------------------------------
(* Bounds of the model *)

\* trades recorded in a run of the ledger, on top of those the constructor
\* loaded from the data file (loaded)
MaxTrades == 2

\* the arguments the ledger is called with; no caller in the repository
\* passes a fee, so it is the default 0.0
Symbols == {"BTCUSDT", "ETHUSDT"}
Sides == {"BUY", "SELL"}
Quantities == {0, 1, 2}
Prices == {1, 2}
Fees == {0}

----------------------------------------------------------------------------
(* Exact arithmetic standing for Python float arithmetic *)

Abs(n) == IF n < 0 THEN -n ELSE n

RECURSIVE Gcd(_, _)
Gcd(a, b) == IF b = 0 THEN a ELSE Gcd(b, a % b)

RNorm(n, d) ==
    LET g == Gcd(Abs(n), Abs(d))
        s == IF d < 0 THEN -1 ELSE 1
    IN  <<(s * n) \div g, (s * d) \div g>>

Rat(n) == <<n, 1>>
RAdd(a, b) == RNorm(a[1] * b[2] + b[1] * a[2], a[2] * b[2])
RSub(a, b) == RNorm(a[1] * b[2] - b[1] * a[2], a[2] * b[2])
RMul(a, b) == RNorm(a[1] * b[1], a[2] * b[2])
\* a / b; the caller checks b # 0 first (Python raises ZeroDivisionError)
RDiv(a, b) == RNorm(a[1] * b[2], a[2] * b[1])
RLt(a, b) == a[1] * b[2] < b[1] * a[2]
RLe(a, b) == a[1] * b[2] <= b[1] * a[2]
RZero == Rat(0)

----------------------------------------------------------------------------
(* services/portfolio_manager.py *)

InitialBalance == 10000

\* Position(symbol, side, quantity, entry_price, current_price) with the
\* dataclass defaults unrealized_pnl = realized_pnl = 0.0
Position(symbol, side, quantity, entry_price, current_price) ==
    [symbol |-> symbol, side |-> side, quantity |-> quantity,
     entry_price |-> entry_price, current_price |-> current_price,
     unrealized_pnl |-> RZero, realized_pnl |-> RZero]

\* Trade(symbol, side, quantity, price, fee, order_id) with pnl = 0.0
Trade(symbol, side, quantity, price, fee, order_id) ==
    [symbol |-> symbol, side |-> side, quantity |-> quantity,
     price |-> price, fee |-> fee, order_id |-> order_id, pnl |-> RZero]

\* dict item assignment and deletion
DictSet(d, k, v) == [x \in DOMAIN d \cup {k} |-> IF x = k THEN v ELSE d[x]]
DictDel(d, k) == [x \in DOMAIN d \ {k} |-> d[x]]

\* the position a BUY opens for a symbol that has none
OpenLongWrongEntry(trade) ==
    Position(trade.symbol, "LONG", trade.quantity, RZero, trade.price)

OpenLong(trade) ==
    Position(trade.symbol, "LONG", trade.quantity, Rat(trade.price), trade.price)

\* total_value / total_quantity when a BUY adds to a LONG (total_quantity # 0)
UnweightedEntry(position, trade) ==
    RDiv(RAdd(position.entry_price, Rat(trade.price)), Rat(2))

AveragedEntry(position, trade) ==
    LET total_value == RAdd(RMul(Rat(position.quantity), position.entry_price),
                            Rat(trade.quantity * trade.price))
        total_quantity == position.quantity + trade.quantity
    IN  RDiv(total_value, Rat(total_quantity))

\* (trade.price - position.entry_price) * quantity
RealizedPnlOnCost(price, entry_price, quantity) ==
    RMul(Rat(price), Rat(quantity))

RealizedPnl(price, entry_price, quantity) ==
    RMul(RSub(Rat(price), entry_price), Rat(quantity))

\* del self.positions[symbol] when a SELL takes the whole LONG
KeepClosedPosition(pos, symbol) == pos

RetainEmptiedPosition(pos, symbol) ==
    DictSet(pos, symbol, [pos[symbol] EXCEPT !.quantity = 0])

RemovePosition(pos, symbol) == DictDel(pos, symbol)

\* the excess of a SELL above the LONG's quantity becomes a SHORT at the
\* trade's price; position already carries the realized pnl of the close
FlipKeepsEntry(position, trade) ==
    [position EXCEPT !.side = "SHORT",
                     !.quantity = trade.quantity - position.quantity]

FlipToShort(position, trade) ==
    LET excess_quantity == trade.quantity - position.quantity
    IN  [position EXCEPT !.side = "SHORT",
                         !.quantity = excess_quantity,
                         !.entry_price = Rat(trade.price)]

\* _update_position_from_trade: the outcome is the new positions dict, the
\* trade (its pnl field may have been set) and whether an exception escaped
UpdatePositionFromTrade(pos, trade) ==
    LET symbol == trade.symbol IN
    IF symbol \notin DOMAIN pos
    THEN IF trade.side = "BUY"
         THEN [raised |-> FALSE, trade |-> trade,
               positions |-> DictSet(pos, symbol, OpenLong(trade))]
         ELSE [raised |-> FALSE, trade |-> trade, positions |-> pos]
    ELSE LET position == pos[symbol] IN
         IF trade.side = "BUY" /\ position.side = "LONG"
         THEN LET total_quantity == position.quantity + trade.quantity
              IN  IF total_quantity = 0
                  THEN \* ZeroDivisionError before any field is assigned
                       [raised |-> TRUE, trade |-> trade, positions |-> pos]
                  ELSE [raised |-> FALSE, trade |-> trade,
                        positions |-> DictSet(pos, symbol,
                            [position EXCEPT
                               !.entry_price = AveragedEntry(position, trade),
                               !.quantity = total_quantity])]
         ELSE IF trade.side = "SELL" /\ position.side = "LONG"
         THEN IF trade.quantity >= position.quantity
              THEN LET realized_pnl == RealizedPnl(trade.price, position.entry_price,
                                                   position.quantity)
                       closed == [position EXCEPT
                                    !.realized_pnl = RAdd(@, realized_pnl)]
                       t == [trade EXCEPT !.pnl = realized_pnl]
                   IN  IF trade.quantity > position.quantity
                       THEN [raised |-> FALSE, trade |-> t,
                             positions |-> DictSet(pos, symbol,
                                               FlipToShort(closed, trade))]
                       ELSE [raised |-> FALSE, trade |-> t,
                             positions |-> RemovePosition(pos, symbol)]
              ELSE LET realized_pnl == RealizedPnl(trade.price, position.entry_price,
                                                   trade.quantity)
                   IN  [raised |-> FALSE,
                        trade |-> [trade EXCEPT !.pnl = realized_pnl],
                        positions |-> DictSet(pos, symbol,
                            [position EXCEPT
                               !.realized_pnl = RAdd(@, realized_pnl),
                               !.quantity = @ - trade.quantity])]
         ELSE \* no branch for a trade on a SHORT position
              [raised |-> FALSE, trade |-> trade, positions |-> pos]

\* _save_portfolio_data: the JSON document written to data_file, one object
\* per position under its symbol and one object per trade, in list order (the
\* time stamps are left out of the model)
SavePosition(pos) ==
    [symbol |-> pos.symbol, side |-> pos.side, quantity |-> pos.quantity,
     entry_price |-> pos.entry_price, current_price |-> pos.current_price,
     unrealized_pnl |-> pos.unrealized_pnl, realized_pnl |-> pos.realized_pnl]

SaveTrade(trade) ==
    [symbol |-> trade.symbol, side |-> trade.side, quantity |-> trade.quantity,
     price |-> trade.price, fee |-> trade.fee, order_id |-> trade.order_id,
     pnl |-> trade.pnl]

SavePortfolioData(bal, eq, peak, mdd, pos, hist) ==
    [exists |-> TRUE, balance |-> bal, equity |-> eq, peak_equity |-> peak,
     max_drawdown |-> mdd,
     positions |-> [symbol \in DOMAIN pos |-> SavePosition(pos[symbol])],
     trade_history |-> [i \in 1..Len(hist) |-> SaveTrade(hist[i])]]

NoFile ==
    [exists |-> FALSE, balance |-> 0, equity |-> RZero, peak_equity |-> RZero,
     max_drawdown |-> RZero, positions |-> <<>>, trade_history |-> <<>>]

\* PortfolioStats; the value of the field "stats" of a call that returns none
NoStats ==
    [total_value |-> RZero, available_balance |-> 0, unrealized_pnl |-> RZero,
     realized_pnl |-> RZero, total_pnl |-> RZero, positions_count |-> 0,
     max_drawdown |-> RZero, win_rate |-> RZero, total_trades |-> 0]

\* the call made last, its arguments and what it returned to its caller
Call(op, symbol, side, quantity, price, fee, ret) ==
    [op |-> op, symbol |-> symbol, side |-> side, quantity |-> quantity,
     price |-> price, fee |-> fee, ret |-> ret, stats |-> NoStats]

\* self.trade_history.append(trade)
RecordTradeFirst(hist, trade) == <<trade>> \o hist

RecordTrade(hist, trade) == Append(hist, trade)

\* add_trade, as a step from the current ledger
AddTradeStep(symbol, side, quantity, price, fee, order_id, op) ==
    LET trade == Trade(symbol, side, quantity, price, fee, order_id)
        r == UpdatePositionFromTrade(positions, trade)
        trade_value == quantity * price
        newBalance == IF side = "BUY" THEN balance - (trade_value + fee)
                                      ELSE balance + (trade_value - fee)
        newHistory == RecordTrade(trade_history, r.trade)
    IN  IF r.raised
        THEN /\ last' = Call(op, symbol, side, quantity, price, fee, "False")
             /\ UNCHANGED <<positions, trade_history, balance, data_file>>
        ELSE /\ positions' = r.positions
             /\ trade_history' = newHistory
             /\ balance' = newBalance
             /\ data_file' = SavePortfolioData(newBalance, equity, peak_equity,
                                 max_drawdown, r.positions, newHistory)
             /\ last' = Call(op, symbol, side, quantity, price, fee, "True")

AddTrade(symbol, side, quantity, price, fee) ==
    /\ Len(trade_history) < loaded + MaxTrades
    /\ AddTradeStep(symbol, side, quantity, price, fee, "", "add_trade")
    /\ UNCHANGED <<equity, peak_equity, max_drawdown, loaded>>
    /\ UNCHANGED notLedgerVars

\* update_position
UnrealizedPnlAtStalePrice(position, current_price) ==
    IF position.side = "LONG"
    THEN RMul(RSub(Rat(position.current_price), position.entry_price),
              Rat(position.quantity))
    ELSE RMul(RSub(position.entry_price, Rat(position.current_price)),
              Rat(position.quantity))

UnrealizedPnl(position, current_price) ==
    IF position.side = "LONG"
    THEN RMul(RSub(Rat(current_price), position.entry_price), Rat(position.quantity))
    ELSE RMul(RSub(position.entry_price, Rat(current_price)), Rat(position.quantity))

UpdatePositionOpens(symbol, current_price) ==
    /\ positions' = DictSet(positions, symbol,
                       Position(symbol, "LONG", 0, Rat(current_price), current_price))
    /\ last' = Call("update_position", symbol, "", 0, current_price, 0, "Position")
    /\ UNCHANGED <<trade_history, balance, equity, peak_equity, max_drawdown,
                   data_file, loaded>>
    /\ UNCHANGED notLedgerVars

UpdatePositionStep(symbol, current_price) ==
    /\ IF symbol \notin DOMAIN positions
       THEN /\ last' = Call("update_position", symbol, "", 0, current_price, 0, "None")
            /\ UNCHANGED <<positions, data_file>>
       ELSE LET position == positions[symbol]
                updated == [position EXCEPT
                              !.current_price = current_price,
                              !.unrealized_pnl = UnrealizedPnl(position, current_price)]
                newPositions == DictSet(positions, symbol, updated)
            IN  /\ positions' = newPositions
                /\ data_file' = SavePortfolioData(balance, equity, peak_equity,
                                    max_drawdown, newPositions, trade_history)
                /\ last' = Call("update_position", symbol, "", 0, current_price, 0,
                                "Position")
    /\ UNCHANGED <<trade_history, balance, equity, peak_equity, max_drawdown,
                   loaded>>

UpdatePosition(symbol, current_price) ==
    /\ UpdatePositionStep(symbol, current_price)
    /\ UNCHANGED notLedgerVars

\* close_position
ClosePositionStep(symbol, price) ==
    /\ IF symbol \notin DOMAIN positions
       THEN /\ last' = Call("close_position", symbol, "", 0, price, 0, "False")
            /\ UNCHANGED <<positions, trade_history, balance, data_file>>
       ELSE LET position == positions[symbol]
                side == IF position.side = "LONG" THEN "SELL" ELSE "BUY"
            IN  /\ Len(trade_history) < loaded + MaxTrades
                /\ AddTradeStep(symbol, side, position.quantity, price, 0,
                                "CLOSE_" \o symbol, "close_position")
    /\ UNCHANGED <<equity, peak_equity, max_drawdown, loaded>>

ClosePosition(symbol, price) ==
    /\ ClosePositionStep(symbol, price)
    /\ UNCHANGED notLedgerVars

\* sums as Python's sum() over a dict's values and over a list
RECURSIVE SumUnrealized(_, _)
SumUnrealized(pos, keys) ==
    IF keys = {} THEN RZero
    ELSE LET k == CHOOSE x \in keys : TRUE
         IN  RAdd(pos[k].unrealized_pnl, SumUnrealized(pos, keys \ {k}))

\* SumValue with each position valued at its entry price
RECURSIVE SumValueAtEntry(_, _)
SumValueAtEntry(pos, keys) ==
    IF keys = {} THEN RZero
    ELSE LET k == CHOOSE x \in keys : TRUE
         IN  RAdd(RMul(Rat(pos[k].quantity), pos[k].entry_price),
                  SumValueAtEntry(pos, keys \ {k}))

RECURSIVE SumValue(_, _)
SumValue(pos, keys) ==
    IF keys = {} THEN RZero
    ELSE LET k == CHOOSE x \in keys : TRUE
         IN  RAdd(Rat(pos[k].quantity * pos[k].current_price),
                  SumValue(pos, keys \ {k}))

RECURSIVE SumPnl(_)
SumPnl(hist) ==
    IF hist = <<>> THEN RZero
    ELSE RAdd(hist[1].pnl, SumPnl(Tail(hist)))

RECURSIVE CountProfitable(_)
CountProfitable(hist) ==
    IF hist = <<>> THEN 0
    ELSE (IF RLt(RZero, hist[1].pnl) THEN 1 ELSE 0) + CountProfitable(Tail(hist))

\* if self.equity > self.peak_equity: self.peak_equity = self.equity
LatestEquity(peak, eq) == eq

RunningPeak(peak, eq) == IF RLt(peak, eq) THEN eq ELSE peak

\* calculate_portfolio_stats (the period PnL fields depend on the wall clock
\* and are left out)
CalculatePortfolioStatsStep ==
    LET total_unrealized_pnl == SumUnrealized(positions, DOMAIN positions)
        total_realized_pnl == SumPnl(trade_history)
        position_value == SumValue(positions, DOMAIN positions)
        total_value == RAdd(Rat(balance), position_value)
        newPeak == RunningPeak(peak_equity, total_value)
        current_drawdown == RDiv(RSub(newPeak, total_value), newPeak)
        newMdd == IF RLt(max_drawdown, current_drawdown) THEN current_drawdown
                                                         ELSE max_drawdown
        profitable_trades == CountProfitable(trade_history)
        total_trades == Len(trade_history)
        win_rate == IF total_trades > 0
                    THEN RDiv(Rat(profitable_trades * 100), Rat(total_trades))
                    ELSE RZero
    IN  /\ equity' = total_value
        /\ peak_equity' = newPeak
        /\ max_drawdown' = newMdd
        /\ last' = [Call("calculate_portfolio_stats", "", "", 0, 0, 0, "PortfolioStats")
                     EXCEPT !.stats =
                    [total_value |-> total_value, available_balance |-> balance,
                     unrealized_pnl |-> total_unrealized_pnl,
                     realized_pnl |-> total_realized_pnl,
                     total_pnl |-> RAdd(total_unrealized_pnl, total_realized_pnl),
                     positions_count |-> Cardinality(DOMAIN positions),
                     max_drawdown |-> RMul(newMdd, Rat(100)),
                     win_rate |-> win_rate, total_trades |-> total_trades]]
        /\ UNCHANGED <<positions, trade_history, balance, data_file, loaded>>

CalculatePortfolioStats ==
    /\ CalculatePortfolioStatsStep
    /\ UNCHANGED notLedgerVars

\* _load_portfolio_data: the fields a data file gives the new ledger; each
\* position and trade is rebuilt from its saved fields
LoadPosition(pos_data) ==
    [symbol |-> pos_data.symbol, side |-> pos_data.side,
     quantity |-> pos_data.quantity, entry_price |-> pos_data.entry_price,
     current_price |-> pos_data.current_price,
     unrealized_pnl |-> pos_data.unrealized_pnl,
     realized_pnl |-> pos_data.realized_pnl]

\* Trade(**trade_data) if the pnl key were not read: the dataclass default
LoadTradeDefaultPnl(trade_data) ==
    [symbol |-> trade_data.symbol, side |-> trade_data.side,
     quantity |-> trade_data.quantity, price |-> trade_data.price,
     fee |-> trade_data.fee, order_id |-> trade_data.order_id,
     pnl |-> RZero]

LoadTrade(trade_data) ==
    [symbol |-> trade_data.symbol, side |-> trade_data.side,
     quantity |-> trade_data.quantity, price |-> trade_data.price,
     fee |-> trade_data.fee, order_id |-> trade_data.order_id,
     pnl |-> trade_data.pnl]

\* the ledger fields after __init__ ran _load_portfolio_data on a data file:
\* the constructor's defaults, overwritten by what the file holds
LoadPortfolioData(file) ==
    IF file.exists
    THEN [balance |-> file.balance,
          equity |-> file.equity,
          peak_equity |-> file.peak_equity,
          max_drawdown |-> file.max_drawdown,
          positions |-> [k \in DOMAIN file.positions |->
                            LoadPosition(file.positions[k])],
          trade_history |-> [i \in 1..Len(file.trade_history) |->
                                LoadTrade(file.trade_history[i])]]
    ELSE [balance |-> InitialBalance,
          equity |-> Rat(InitialBalance),
          peak_equity |-> Rat(InitialBalance),
          max_drawdown |-> RZero,
          positions |-> <<>>,
          trade_history |-> <<>>]

\* __init__ with a data file
LedgerInitFrom(file) ==
    LET ledger == LoadPortfolioData(file)
    IN  /\ data_file = file
        /\ balance = ledger.balance
        /\ equity = ledger.equity
        /\ peak_equity = ledger.peak_equity
        /\ max_drawdown = ledger.max_drawdown
        /\ positions = ledger.positions
        /\ trade_history = ledger.trade_history
        /\ loaded = Len(ledger.trade_history)
        /\ last = Call("init", "", "", 0, 0, 0, "None")

\* __init__ without a data file
LedgerInit == LedgerInitFrom(NoFile)

----------------------------------------------------------------------------
(* services/portfolio_manager.py: add_trade called from two threads.  The   *)
(* ledger takes no lock, so the calls interleave between statements, and a  *)
(* statement that reads a shared field and writes it back (+=, -=) is a     *)
(* read step followed by a write step.                                      *)

Threads == {"t1", "t2"}

\* the arguments the two threads call add_trade with
ThreadQuantities == {1, 2}
ThreadPrices == {1, 2}

NoObject == Position("", "", 0, RZero, 0)

\* a thread's frame: where it is in add_trade, its arguments and locals.
\* position is a reference: it is the object in self.positions unless that
\* object was deleted from the dict meanwhile (orphan), and then obj is it.
IdleThread ==
    [pc |-> "idle", symbol |-> "", side |-> "", quantity |-> 0, price |-> 0,
     pnl |-> RZero, total_value |-> RZero, total_quantity |-> 0,
     realized_pnl |-> RZero, read |-> RZero, balance_read |-> 0,
     base_quantity |-> 0,
     excess_quantity |-> 0, closing |-> FALSE, orphan |-> FALSE,
     obj |-> NoObject, ret |-> "None"]

ThreadsIdle == threads = [t \in Threads |-> IdleThread]

\* the frames between "position = self.positions[symbol]" and the end of
\* _update_position_from_trade hold a reference to the position
RefPcs ==
    {"branch", "buy_value", "buy_quantity", "buy_write_entry",
     "buy_write_quantity", "sell_compare", "close_pnl", "part_pnl",
     "read_realized", "write_realized", "close_compare", "flip_excess",
     "flip_side", "flip_quantity", "flip_entry", "delete",
     "part_read_quantity", "part_write_quantity"}

PositionOf(t) ==
    IF threads[t].orphan THEN threads[t].obj ELSE positions[threads[t].symbol]

\* a step that changes only the thread's own frame
Local(t, frame) ==
    /\ threads' = [threads EXCEPT ![t] = frame]
    /\ UNCHANGED <<positions, trade_history, balance, data_file>>

Goto(t, pc) == Local(t, [threads[t] EXCEPT !.pc = pc])

\* an exception inside the try block: add_trade logs it and returns False
Raise(t) == Local(t, [threads[t] EXCEPT !.pc = "done", !.ret = "False"])

\* a write to a field of the referenced position, then on to pc
WritePosition(t, obj, pc) ==
    /\ IF threads[t].orphan
       THEN /\ threads' = [threads EXCEPT ![t] = [@ EXCEPT !.obj = obj, !.pc = pc]]
            /\ UNCHANGED positions
       ELSE /\ positions' = DictSet(positions, threads[t].symbol, obj)
            /\ threads' = [threads EXCEPT ![t] = [@ EXCEPT !.pc = pc]]
    /\ UNCHANGED <<trade_history, balance, data_file>>

ThreadFrame ==
    <<equity, peak_equity, max_drawdown, loaded, last, signalVars, riskVars,
      retryVars, botVars, managerVars>>

\* add_trade(symbol, side, quantity, price) is called on thread t
ThreadCall(t, symbol, side, quantity, price) ==
    /\ threads[t].pc = "idle"
    /\ Local(t, [IdleThread EXCEPT !.pc = "check", !.symbol = symbol,
                                   !.side = side, !.quantity = quantity,
                                   !.price = price])
    /\ UNCHANGED ThreadFrame

\* if symbol not in self.positions: (BUY) self.positions[symbol] = Position(...)
ThreadCheck(t) ==
    LET f == threads[t] IN
    /\ f.pc = "check"
    /\ IF f.symbol \notin DOMAIN positions
       THEN IF f.side = "BUY"
            THEN /\ positions' = DictSet(positions, f.symbol,
                        OpenLong(Trade(f.symbol, f.side, f.quantity, f.price, 0, "")))
                 /\ threads' = [threads EXCEPT ![t] = [@ EXCEPT !.pc = "append"]]
                 /\ UNCHANGED <<trade_history, balance, data_file>>
            ELSE Goto(t, "append")
       ELSE Goto(t, "fetch")
    /\ UNCHANGED ThreadFrame

\* position = self.positions[symbol]  (KeyError when it was deleted meanwhile)
ThreadFetch(t) ==
    LET f == threads[t] IN
    /\ f.pc = "fetch"
    /\ IF f.symbol \notin DOMAIN positions THEN Raise(t) ELSE Goto(t, "branch")
    /\ UNCHANGED ThreadFrame

\* if trade.side == "BUY" and position.side == "LONG": ... elif ... "SELL" ...
ThreadBranch(t) ==
    LET f == threads[t] IN
    /\ f.pc = "branch"
    /\ IF f.side = "BUY" /\ PositionOf(t).side = "LONG" THEN Goto(t, "buy_value")
       ELSE IF f.side = "SELL" /\ PositionOf(t).side = "LONG"
       THEN Goto(t, "sell_compare")
       ELSE Goto(t, "append")
    /\ UNCHANGED ThreadFrame

\* total_value = (position.quantity * position.entry_price) + (trade.quantity * trade.price)
ThreadBuyValue(t) ==
    LET f == threads[t] IN
    /\ f.pc = "buy_value"
    /\ Local(t, [f EXCEPT !.pc = "buy_quantity",
                          !.total_value =
                              RAdd(RMul(Rat(PositionOf(t).quantity),
                                        PositionOf(t).entry_price),
                                   Rat(f.quantity * f.price))])
    /\ UNCHANGED ThreadFrame

\* total_quantity = position.quantity + trade.quantity
ThreadBuyQuantity(t) ==
    LET f == threads[t] IN
    /\ f.pc = "buy_quantity"
    /\ Local(t, [f EXCEPT !.pc = "buy_write_entry",
                          !.base_quantity = PositionOf(t).quantity,
                          !.total_quantity = PositionOf(t).quantity + f.quantity])
    /\ UNCHANGED ThreadFrame

\* position.entry_price = total_value / total_quantity
ThreadBuyWriteEntry(t) ==
    LET f == threads[t] IN
    /\ f.pc = "buy_write_entry"
    /\ IF f.total_quantity = 0
       THEN Raise(t)
       ELSE WritePosition(t, [PositionOf(t) EXCEPT !.entry_price =
                                  RDiv(f.total_value, Rat(f.total_quantity))],
                          "buy_write_quantity")
    /\ UNCHANGED ThreadFrame

\* position.quantity = total_quantity, re-reading the quantity and adding the
\* trade's (what a serialized call would write)
WriteQuantityAdded(position, f) ==
    [position EXCEPT !.quantity = position.quantity + f.quantity]

\* position.quantity = total_quantity
WriteTotalQuantity(position, f) ==
    [position EXCEPT !.quantity = f.total_quantity]

ThreadBuyWriteQuantity(t) ==
    LET f == threads[t] IN
    /\ f.pc = "buy_write_quantity"
    /\ WritePosition(t, WriteTotalQuantity(PositionOf(t), f), "append")
    /\ UNCHANGED ThreadFrame

\* if trade.quantity >= position.quantity:
ThreadSellCompare(t) ==
    LET f == threads[t] IN
    /\ f.pc = "sell_compare"
    /\ IF f.quantity >= PositionOf(t).quantity
       THEN Local(t, [f EXCEPT !.pc = "close_pnl", !.closing = TRUE])
       ELSE Local(t, [f EXCEPT !.pc = "part_pnl", !.closing = FALSE])
    /\ UNCHANGED ThreadFrame

\* realized_pnl = (trade.price - position.entry_price) * position.quantity
ThreadClosePnl(t) ==
    LET f == threads[t] IN
    /\ f.pc = "close_pnl"
    /\ Local(t, [f EXCEPT !.pc = "read_realized",
                          !.base_quantity = PositionOf(t).quantity,
                          !.realized_pnl =
                              RealizedPnl(f.price, PositionOf(t).entry_price,
                                          PositionOf(t).quantity)])
    /\ UNCHANGED ThreadFrame

\* realized_pnl = (trade.price - position.entry_price) * trade.quantity
ThreadPartPnl(t) ==
    LET f == threads[t] IN
    /\ f.pc = "part_pnl"
    /\ Local(t, [f EXCEPT !.pc = "read_realized",
                          !.realized_pnl =
                              RealizedPnl(f.price, PositionOf(t).entry_price,
                                          f.quantity)])
    /\ UNCHANGED ThreadFrame

\* position.realized_pnl += realized_pnl: the read
ThreadReadRealized(t) ==
    LET f == threads[t] IN
    /\ f.pc = "read_realized"
    /\ Local(t, [f EXCEPT !.pc = "write_realized",
                          !.read = PositionOf(t).realized_pnl])
    /\ UNCHANGED ThreadFrame

\* position.realized_pnl += realized_pnl: the write; then in the closing
\* branch trade.pnl = realized_pnl (in the partial branch that comes after
\* the quantity is written; trade is not shared yet, so the order is not seen)
ThreadWriteRealized(t) ==
    LET f == threads[t] IN
    /\ f.pc = "write_realized"
    /\ IF f.orphan
       THEN /\ threads' = [threads EXCEPT ![t] =
                   [f EXCEPT !.obj = [f.obj EXCEPT !.realized_pnl =
                                          RAdd(f.read, f.realized_pnl)],
                             !.pnl = f.realized_pnl,
                             !.pc = IF f.closing THEN "close_compare"
                                                 ELSE "part_read_quantity"]]
            /\ UNCHANGED positions
       ELSE /\ positions' = DictSet(positions, f.symbol,
                   [positions[f.symbol] EXCEPT !.realized_pnl =
                        RAdd(f.read, f.realized_pnl)])
            /\ threads' = [threads EXCEPT ![t] =
                   [f EXCEPT !.pnl = f.realized_pnl,
                             !.pc = IF f.closing THEN "close_compare"
                                                 ELSE "part_read_quantity"]]
    /\ UNCHANGED <<trade_history, balance, data_file>>
    /\ UNCHANGED ThreadFrame

\* if trade.quantity > position.quantity:
ThreadCloseCompare(t) ==
    LET f == threads[t] IN
    /\ f.pc = "close_compare"
    /\ IF f.quantity > PositionOf(t).quantity THEN Goto(t, "flip_excess")
                                             ELSE Goto(t, "delete")
    /\ UNCHANGED ThreadFrame

\* excess_quantity = trade.quantity - position.quantity
ThreadFlipExcess(t) ==
    LET f == threads[t] IN
    /\ f.pc = "flip_excess"
    /\ Local(t, [f EXCEPT !.pc = "flip_side",
                          !.excess_quantity = f.quantity - PositionOf(t).quantity])
    /\ UNCHANGED ThreadFrame

\* position.side = "SHORT"
ThreadFlipSide(t) ==
    /\ threads[t].pc = "flip_side"
    /\ WritePosition(t, [PositionOf(t) EXCEPT !.side = "SHORT"], "flip_quantity")
    /\ UNCHANGED ThreadFrame

\* position.quantity = excess_quantity
ThreadFlipQuantity(t) ==
    /\ threads[t].pc = "flip_quantity"
    /\ WritePosition(t, [PositionOf(t) EXCEPT !.quantity = threads[t].excess_quantity],
                     "flip_entry")
    /\ UNCHANGED ThreadFrame

\* position.entry_price = trade.price
ThreadFlipEntry(t) ==
    /\ threads[t].pc = "flip_entry"
    /\ WritePosition(t, [PositionOf(t) EXCEPT !.entry_price = Rat(threads[t].price)],
                     "append")
    /\ UNCHANGED ThreadFrame

\* del self.positions[symbol]  (KeyError when the key is gone already); a
\* frame that still refers to the deleted object keeps it
ThreadDelete(t) ==
    LET f == threads[t] IN
    /\ f.pc = "delete"
    /\ IF f.symbol \notin DOMAIN positions
       THEN Raise(t)
       ELSE /\ positions' = DictDel(positions, f.symbol)
            /\ threads' = [u \in Threads |->
                   IF u = t THEN [f EXCEPT !.pc = "append"]
                   ELSE IF /\ threads[u].pc \in RefPcs
                           /\ threads[u].symbol = f.symbol
                           /\ ~threads[u].orphan
                        THEN [threads[u] EXCEPT !.orphan = TRUE,
                                                !.obj = positions[f.symbol]]
                        ELSE threads[u]]
            /\ UNCHANGED <<trade_history, balance, data_file>>
    /\ UNCHANGED ThreadFrame

\* position.quantity -= trade.quantity: the read
ThreadPartReadQuantity(t) ==
    LET f == threads[t] IN
    /\ f.pc = "part_read_quantity"
    /\ Local(t, [f EXCEPT !.pc = "part_write_quantity",
                          !.base_quantity = PositionOf(t).quantity])
    /\ UNCHANGED ThreadFrame

\* position.quantity -= trade.quantity: the write
ThreadPartWriteQuantity(t) ==
    LET f == threads[t] IN
    /\ f.pc = "part_write_quantity"
    /\ WritePosition(t, [PositionOf(t) EXCEPT !.quantity = f.base_quantity - f.quantity],
                     "append")
    /\ UNCHANGED ThreadFrame

\* self.trade_history.append(trade)
ThreadAppend(t) ==
    LET f == threads[t] IN
    /\ f.pc = "append"
    /\ trade_history' = RecordTrade(trade_history,
                            [Trade(f.symbol, f.side, f.quantity, f.price, 0, "")
                                EXCEPT !.pnl = f.pnl])
    /\ threads' = [threads EXCEPT ![t] = [@ EXCEPT !.pc = "read_balance"]]
    /\ UNCHANGED <<positions, balance, data_file>>
    /\ UNCHANGED ThreadFrame

\* self.balance -= (trade_value + fee) / self.balance += (trade_value - fee):
\* the read
ThreadReadBalance(t) ==
    LET f == threads[t] IN
    /\ f.pc = "read_balance"
    /\ Local(t, [f EXCEPT !.pc = "write_balance", !.balance_read = balance])
    /\ UNCHANGED ThreadFrame

\* the write (fee is the default 0.0)
BalanceWritten(f) ==
    IF f.side = "BUY" THEN f.balance_read - f.quantity * f.price
                      ELSE f.balance_read + f.quantity * f.price

ThreadWriteBalance(t) ==
    LET f == threads[t] IN
    /\ f.pc = "write_balance"
    /\ balance' = BalanceWritten(f)
    /\ threads' = [threads EXCEPT ![t] = [@ EXCEPT !.pc = "save"]]
    /\ UNCHANGED <<positions, trade_history, data_file>>
    /\ UNCHANGED ThreadFrame

\* self._save_portfolio_data(); return True
ThreadSave(t) ==
    LET f == threads[t] IN
    /\ f.pc = "save"
    /\ data_file' = SavePortfolioData(balance, equity, peak_equity, max_drawdown,
                                      positions, trade_history)
    /\ threads' = [threads EXCEPT ![t] = [@ EXCEPT !.pc = "done", !.ret = "True"]]
    /\ UNCHANGED <<positions, trade_history, balance>>
    /\ UNCHANGED ThreadFrame

----------------------------------------------------------------------------
(* part1_core/signal_generator.py *)

MaxBatch == 2

ChangeThreshold == 3
VolumeThreshold == 10000000

\* a ticker field as the exchange sends it: a numeric string, a string that
\* is no number, or a key that is absent from the item
Num(n) == [kind |-> "num", val |-> n]
NonNumeric == [kind |-> "text", val |-> 0]
Missing == [kind |-> "missing", val |-> 0]

SignalSymbols == {"BTCUSDT", "ETHUSDT"}
ChangeFields == {Num(-4), Num(-3), Num(3), Num(4), NonNumeric, Missing}
VolumeFields == {Num(VolumeThreshold), Num(2 * VolumeThreshold), NonNumeric}
PriceFields == {Num(50000), NonNumeric}

Snapshots ==
    [symbol : SignalSymbols, priceChangePercent : ChangeFields,
     quoteVolume : VolumeFields, lastPrice : PriceFields]

Batches == UNION {[1..n -> Snapshots] : n \in 0..MaxBatch}

\* float(item.get(key, 0)): the default 0 for an absent key, the number of a
\* numeric string, ValueError otherwise
FloatRaises(field) == field.kind = "text"
Float(field) == IF field.kind = "num" THEN field.val ELSE 0

ItemRaises(item) ==
    \/ FloatRaises(item.priceChangePercent)
    \/ FloatRaises(item.quoteVolume)
    \/ FloatRaises(item.lastPrice)

Signal(item) ==
    [symbol |-> item.symbol, change_percent |-> Float(item.priceChangePercent),
     quote_volume |-> Float(item.quoteVolume), last_price |-> Float(item.lastPrice)]

\* the two threshold tests of the loop body
ClassifyInclusive(change, quote_volume) ==
    IF change >= ChangeThreshold /\ quote_volume > VolumeThreshold THEN "BUY"
    ELSE IF change <= -ChangeThreshold /\ quote_volume > VolumeThreshold THEN "SELL"
    ELSE "NONE"

ClassifyVolumeInclusive(change, quote_volume) ==
    IF change > ChangeThreshold /\ quote_volume >= VolumeThreshold THEN "BUY"
    ELSE IF change < -ChangeThreshold /\ quote_volume >= VolumeThreshold THEN "SELL"
    ELSE "NONE"

Classify(change, quote_volume) ==
    IF change > ChangeThreshold /\ quote_volume > VolumeThreshold THEN "BUY"
    ELSE IF change < -ChangeThreshold /\ quote_volume > VolumeThreshold THEN "SELL"
    ELSE "NONE"

\* list.append of the signal built from an item
PrependSignal(list, item) == <<Signal(item)>> \o list

AppendSignal(list, item) == Append(list, Signal(item))

\* the loop of generate_signals from item i on, with the lists built so far
RECURSIVE GenerateFrom(_, _, _, _)
GenerateFrom(data, i, buy_signals, sell_signals) ==
    IF i > Len(data)
    THEN [status |-> "returned", buy |-> buy_signals, sell |-> sell_signals]
    ELSE LET item == data[i]
             change == Float(item.priceChangePercent)
             quote_volume == Float(item.quoteVolume)
         IN  IF ItemRaises(item)
             THEN \* the exception leaves generate_signals: no lists are returned
                  [status |-> "ValueError", buy |-> <<>>, sell |-> <<>>]
             ELSE IF Classify(change, quote_volume) = "BUY"
             THEN GenerateFrom(data, i + 1, AppendSignal(buy_signals, item),
                               sell_signals)
             ELSE IF Classify(change, quote_volume) = "SELL"
             THEN GenerateFrom(data, i + 1, buy_signals,
                               AppendSignal(sell_signals, item))
             ELSE GenerateFrom(data, i + 1, buy_signals, sell_signals)

generate_signals(data) == GenerateFrom(data, 1, <<>>, <<>>)

SignalIdle == signals = [status |-> "idle", buy |-> <<>>, sell |-> <<>>]

GenerateSignals ==
    /\ signals.status = "idle"
    /\ signals' = generate_signals(batch)
    /\ UNCHANGED <<batch, notSignalVars>>

----------------------------------------------------------------------------
(* utils/risk_management.py, core/risk_manager.py, strategies/base_strategy.py *)

\* RiskLimits defaults, in percent: stop_loss_pct = 0.02, take_profit_pct = 0.04
StopLossPct == 2
TakeProfitPct == 4

StopLossPcts == {0, StopLossPct}
TakeProfitPcts == {0, TakeProfitPct}
EntryPrices == {0, 50, 100}
CurrentPrices == {49, 50, 52, 96, 97, 98, 99, 100, 102, 103, 104, 105}
PositionSides == {"LONG", "SHORT", "long"}

Pct(n) == RNorm(n, 100)
Neg(a) == <<-a[1], a[2]>>

\* str.upper() on the side strings of the model
Upper(side) == IF side = "long" THEN "LONG" ELSE side

\* the stop-loss check first, then the take-profit check
ExitDecisionProfitFirst(pnl_pct, sl, tp, stop, take) ==
    IF RLe(Pct(tp), pnl_pct) THEN take
    ELSE IF RLe(pnl_pct, Neg(Pct(sl))) THEN stop
    ELSE "None"

ExitDecision(pnl_pct, sl, tp, stop, take) ==
    IF RLe(pnl_pct, Neg(Pct(sl))) THEN stop
    ELSE IF RLe(Pct(tp), pnl_pct) THEN take
    ELSE "None"

\* utils/risk_management.py RiskManager.should_exit
should_exit(entry_price, current_price, side, sl, tp) ==
    IF entry_price = 0 THEN "ZeroDivisionError"
    ELSE LET pnl_pct == IF Upper(side) = "LONG"
                        THEN RNorm(current_price - entry_price, entry_price)
                        ELSE RNorm(entry_price - current_price, entry_price)
         IN  ExitDecision(pnl_pct, sl, tp, "STOP_LOSS", "TAKE_PROFIT")

\* core/risk_manager.py RiskManager.should_exit: no side, "SL" and "TP"
core_should_exit(entry_price, current_price, sl, tp) ==
    IF entry_price = 0 THEN "ZeroDivisionError"
    ELSE ExitDecision(RNorm(current_price - entry_price, entry_price), sl, tp,
                      "SL", "TP")

\* strategies/base_strategy.py BaseStrategy.should_exit_position: the side is
\* compared as given and every exception is caught and answered with None
should_exit_position(entry_price, current_price, side, sl, tp) ==
    IF entry_price = 0 THEN "None"
    ELSE LET pnl_pct == IF side = "LONG"
                        THEN RNorm(current_price - entry_price, entry_price)
                        ELSE RNorm(entry_price - current_price, entry_price)
         IN  ExitDecision(pnl_pct, sl, tp, "STOP_LOSS", "TAKE_PROFIT")

RiskCall(impl, entry_price, current_price, side, sl, tp, result) ==
    [impl |-> impl, entry_price |-> entry_price, current_price |-> current_price,
     side |-> side, sl |-> sl, tp |-> tp, result |-> result]

RiskIdle == risk = RiskCall("none", 0, 0, "", 0, 0, "None")

ShouldExit(entry_price, current_price, side, sl, tp) ==
    /\ risk' = RiskCall("utils", entry_price, current_price, side, sl, tp,
                        should_exit(entry_price, current_price, side, sl, tp))
    /\ UNCHANGED notRiskVars

CoreShouldExit(entry_price, current_price, sl, tp) ==
    /\ risk' = RiskCall("core", entry_price, current_price, "LONG", sl, tp,
                        core_should_exit(entry_price, current_price, sl, tp))
    /\ UNCHANGED notRiskVars

ShouldExitPosition(entry_price, current_price, side, sl, tp) ==
    /\ risk' = RiskCall("strategy", entry_price, current_price, side, sl, tp,
                        should_exit_position(entry_price, current_price, side, sl, tp))
    /\ UNCHANGED notRiskVars

----------------------------------------------------------------------------
(* utils/error_handler.py retry and infra/error_autofix.py retry_network *)

\* the attempts a caller may ask for; 3 is the default of both helpers and
\* no caller in the repository passes another value
MaxAttempts == 3

RetryImpls == {"retry", "retry_network"}

\* what one call of the wrapped function does: return a value or raise
Exceptions == {"ConnectionError", "TimeoutError"}
Returns(value) == [raised |-> FALSE, value |-> value]
Raises(exception) == [raised |-> TRUE, value |-> exception]
\* (get_live_price in main.py reports a failure by returning None)
Outcomes == {Returns("42"), Returns("None")} \cup {Raises(e) : e \in Exceptions}

\* delay and backoff: retry sleeps 1.0 and doubles, retry_network sleeps 5.0
InitialDelay(impl) == IF impl = "retry" THEN 1 ELSE 5
NextDelay(impl, delay) == IF impl = "retry" THEN delay * 2 ELSE delay

\* the frame of a helper call: the loop variable, the outcomes of the calls
\* of func made so far, and how the helper ended
RetryIdleFrame ==
    [pc |-> "idle", impl |-> "", max_attempts |-> 0, attempt |-> 0,
     delay |-> 0, slept |-> 0, calls |-> <<>>, result |-> Returns("None")]

RetryIdle == retrying = RetryIdleFrame

\* retry(func, max_attempts) / retry_network(func, retries=max_attempts)
RetryCall(impl, max_attempts) ==
    /\ retrying.pc = "idle"
    /\ retrying' = [RetryIdleFrame EXCEPT
                      !.impl = impl, !.max_attempts = max_attempts,
                      !.delay = InitialDelay(impl),
                      \* for attempt in range(max_attempts):
                      !.pc = IF 0 < max_attempts THEN "try" ELSE "returned"]
    /\ UNCHANGED notRetryVars

\* if attempt == max_attempts - 1, one attempt late
LastAttemptLate(attempt, max_attempts) == attempt = max_attempts

\* if attempt == max_attempts - 1
LastAttempt(attempt, max_attempts) == attempt = max_attempts - 1

\* try: return func()   except Exception: raise on the last attempt
RetryAttempt(outcome) ==
    LET f == retrying
        calls == Append(f.calls, outcome)
    IN  /\ f.pc = "try"
        /\ IF ~outcome.raised
           THEN retrying' = [f EXCEPT !.calls = calls, !.pc = "returned",
                                      !.result = outcome]
           ELSE IF LastAttempt(f.attempt, f.max_attempts)
                THEN retrying' = [f EXCEPT !.calls = calls, !.pc = "raised",
                                           !.result = outcome]
                ELSE retrying' = [f EXCEPT !.calls = calls, !.pc = "sleep"]
        /\ UNCHANGED notRetryVars

\* time.sleep(delay) (and delay *= backoff), then the next round of the loop;
\* when range(max_attempts) is used up the helper returns None
RetrySleep ==
    LET f == retrying IN
    /\ f.pc = "sleep"
    /\ retrying' = [f EXCEPT !.slept = @ + f.delay,
                             !.delay = NextDelay(f.impl, f.delay),
                             !.attempt = @ + 1,
                             !.pc = IF f.attempt + 1 < f.max_attempts
                                    THEN "try" ELSE "returned"]
    /\ UNCHANGED notRetryVars

----------------------------------------------------------------------------
(* main.py run_bot and enhanced_main.py run_single_cycle: one trading run   *)
(* of the bot, statement by statement.  The price feed and the order sink   *)
(* are outside the program: the feed answers a price or nothing (0 stands   *)
(* for None, and `if not entry_price` treats both alike), the sink answers  *)
(* "success" or "error".                                                    *)

DEFAULT_SYMBOL == "BTCUSDT"
DEFAULT_QUANTITY == 10

FeedPrices == {0, 100}
TickPrices == {0, 98, 100, 104}
OrderStatuses == {"success", "error"}
MaxSignals == 2
SignalSides == {"BUY", "SELL"}
SignalLists ==
    UNION {[1..n -> SignalSides] : n \in 0..MaxSignals}

BotFrame(program, pc) ==
    [program |-> program, pc |-> pc, entry_price |-> 0, current_price |-> 0,
     order |-> "", decision |-> "", close_order |-> "", pending |-> <<>>]

BotIdle == bot = BotFrame("none", "idle")

botFrameVars == <<signalVars, threadVars, retryVars, managerVars>>

\* if order["status"] == "success": add_trade(...) else: return
AfterOrderAlways(status) == "add_trade"

AfterOrder(status) == IF status = "success" THEN "add_trade" ELSE "end"

\* if decision: place the closing order
AfterDecisionAlways(decision) == "close_order"

AfterDecision(decision) == IF decision # "None" THEN "close_order" ELSE "alert"

\* if close_order["status"] == "success": close_position(...)
AfterCloseOrder(status) == IF status = "success" THEN "close" ELSE "alert"

BotStart(program) ==
    /\ bot.pc = "idle"
    /\ bot' = BotFrame(program, IF program = "run_bot" THEN "entry" ELSE "market")
    /\ UNCHANGED <<ledgerVars, risk, botFrameVars>>

\* entry_price = retry(get_live_price); if not entry_price: return
BotFetchEntry(price) ==
    /\ bot.pc = "entry"
    /\ bot' = [bot EXCEPT !.entry_price = price,
                          !.pc = IF price = 0 THEN "end" ELSE "order"]
    /\ UNCHANGED <<ledgerVars, risk, botFrameVars>>

\* order = retry(place_order(..., "BUY"))
BotPlaceOrder(status) ==
    /\ bot.pc = "order"
    /\ bot' = [bot EXCEPT !.order = status, !.pc = AfterOrder(status)]
    /\ UNCHANGED <<ledgerVars, risk, botFrameVars>>

\* portfolio_manager.add_trade(symbol, "BUY", qty, entry_price, order_id)
BotAddTrade ==
    /\ bot.pc = "add_trade"
    /\ AddTradeStep(DEFAULT_SYMBOL, "BUY", DEFAULT_QUANTITY, bot.entry_price, 0,
                    "order_id", "add_trade")
    /\ bot' = [bot EXCEPT !.pc = "current"]
    /\ UNCHANGED <<equity, peak_equity, max_drawdown, loaded, risk, botFrameVars>>

\* current_price = retry(get_live_price); if current_price: ...
BotFetchCurrent(price) ==
    /\ bot.pc = "current"
    /\ bot' = [bot EXCEPT !.current_price = price,
                          !.pc = IF price = 0 THEN "alert" ELSE "update"]
    /\ UNCHANGED <<ledgerVars, risk, botFrameVars>>

\* portfolio_manager.update_position(symbol, current_price)
BotUpdatePosition ==
    /\ bot.pc = "update"
    /\ UpdatePositionStep(DEFAULT_SYMBOL, bot.current_price)
    /\ bot' = [bot EXCEPT !.pc = "risk"]
    /\ UNCHANGED <<risk, botFrameVars>>

\* decision = risk_manager.should_exit(entry_price, current_price)
BotShouldExit ==
    LET decision == should_exit(bot.entry_price, bot.current_price, "LONG",
                                StopLossPct, TakeProfitPct)
    IN  /\ bot.pc = "risk"
        /\ risk' = RiskCall("utils", bot.entry_price, bot.current_price, "LONG",
                            StopLossPct, TakeProfitPct, decision)
        /\ bot' = [bot EXCEPT !.decision = decision, !.pc = AfterDecision(decision)]
        /\ UNCHANGED <<ledgerVars, botFrameVars>>

\* close_order = place_order(..., "SELL")
BotCloseOrder(status) ==
    /\ bot.pc = "close_order"
    /\ bot' = [bot EXCEPT !.close_order = status, !.pc = AfterCloseOrder(status)]
    /\ UNCHANGED <<ledgerVars, risk, botFrameVars>>

\* portfolio_manager.close_position(symbol, current_price)
BotClosePosition ==
    /\ bot.pc = "close"
    /\ ClosePositionStep(DEFAULT_SYMBOL, bot.current_price)
    /\ bot' = [bot EXCEPT !.pc = "alert"]
    /\ UNCHANGED <<risk, botFrameVars>>

\* portfolio_manager.send_portfolio_update(): it computes the statistics
BotPortfolioUpdate ==
    /\ bot.pc = "alert"
    /\ CalculatePortfolioStatsStep
    /\ bot' = [bot EXCEPT !.pc = "stats"]
    /\ UNCHANGED <<risk, botFrameVars>>

\* stats = portfolio_manager.calculate_portfolio_stats()
BotStats ==
    /\ bot.pc = "stats"
    /\ CalculatePortfolioStatsStep
    /\ bot' = [bot EXCEPT !.pc = "end"]
    /\ UNCHANGED <<risk, botFrameVars>>

\* run_single_cycle: market_data = get_market_data(symbol); without it the
\* cycle returns False
CycleMarketData(price) ==
    /\ bot.pc = "market"
    /\ bot' = [bot EXCEPT !.current_price = price,
                          !.pc = IF price = 0 THEN "end" ELSE "cycle_update"]
    /\ UNCHANGED <<ledgerVars, risk, botFrameVars>>

\* portfolio_manager.update_position(symbol, market_data.price)
CycleUpdatePosition ==
    /\ bot.pc = "cycle_update"
    /\ UpdatePositionStep(DEFAULT_SYMBOL, bot.current_price)
    /\ bot' = [bot EXCEPT !.pc = "signals"]
    /\ UNCHANGED <<risk, botFrameVars>>

\* signals = strategy_manager.generate_signals(market_context)
CycleSignals(sides) ==
    /\ bot.pc = "signals"
    /\ bot' = [bot EXCEPT !.pending = sides,
                          !.pc = IF sides = <<>> THEN "end" ELSE "execute"]
    /\ UNCHANGED <<ledgerVars, risk, botFrameVars>>

\* the next round of `for signal in signals`
NextSignal(pending) == IF Len(pending) > 1 THEN "execute" ELSE "end"

\* response = trade_executor.place_order(order_request); if response: ...
CycleExecute(status) ==
    /\ bot.pc = "execute"
    /\ IF AfterOrder(status) = "add_trade"
       THEN bot' = [bot EXCEPT !.order = status, !.pc = "cycle_add"]
       ELSE bot' = [bot EXCEPT !.order = status, !.pending = Tail(@),
                               !.pc = NextSignal(bot.pending)]
    /\ UNCHANGED <<ledgerVars, risk, botFrameVars>>

\* portfolio_manager.add_trade(signal.symbol, signal.signal_type.value,
\* default_quantity, signal.price or market_data.price, response.order_id)
CycleAddTrade ==
    /\ bot.pc = "cycle_add"
    /\ AddTradeStep(DEFAULT_SYMBOL, Head(bot.pending), DEFAULT_QUANTITY,
                    bot.current_price, 0, "order_id", "add_trade")
    /\ bot' = [bot EXCEPT !.pending = Tail(@), !.pc = NextSignal(bot.pending)]
    /\ UNCHANGED <<equity, peak_equity, max_drawdown, loaded, risk, botFrameVars>>

----------------------------------------------------------------------------
(* strategies/base_strategy.py StrategyManager: strategies maps a name to   *)
(* the registered strategy (here its active flag), active_strategies is the *)
(* list of names generate_signals runs                                      *)

StrategyNames == {"momentum", "mean_reversion"}

\* calls of add_strategy in one run of the manager
MaxAdds == 3

\* list.remove(name): the first occurrence goes
RECURSIVE ListRemove(_, _)
ListRemove(list, name) ==
    IF list = <<>> THEN <<>>
    ELSE IF Head(list) = name THEN Tail(list)
    ELSE <<Head(list)>> \o ListRemove(Tail(list), name)

InList(list, name) == \E i \in 1..Len(list) : list[i] = name

ManagerFrame(strategies, active_strategies, adds) ==
    [strategies |-> strategies, active_strategies |-> active_strategies,
     adds |-> adds, ran |-> <<>>, ret |-> "None"]

\* __init__
ManagerIdle == manager = ManagerFrame(<<>>, <<>>, 0)

\* add_strategy(strategy), the strategy having this name and active flag
AddStrategy(name, active) ==
    /\ manager.adds < MaxAdds
    /\ manager' = ManagerFrame(
                      DictSet(manager.strategies, name, active),
                      IF active THEN Append(manager.active_strategies, name)
                                ELSE manager.active_strategies,
                      manager.adds + 1)
    /\ UNCHANGED notManagerVars

RemoveStrategy(name) ==
    /\ IF name \in DOMAIN manager.strategies
       THEN manager' = ManagerFrame(
                          DictDel(manager.strategies, name),
                          IF InList(manager.active_strategies, name)
                          THEN ListRemove(manager.active_strategies, name)
                          ELSE manager.active_strategies,
                          manager.adds)
       ELSE manager' = ManagerFrame(manager.strategies,
                                    manager.active_strategies, manager.adds)
    /\ UNCHANGED notManagerVars

EnableStrategy(name) ==
    /\ IF name \in DOMAIN manager.strategies
       THEN manager' = ManagerFrame(
                          DictSet(manager.strategies, name, TRUE),
                          IF ~InList(manager.active_strategies, name)
                          THEN Append(manager.active_strategies, name)
                          ELSE manager.active_strategies,
                          manager.adds)
       ELSE manager' = ManagerFrame(manager.strategies,
                                    manager.active_strategies, manager.adds)
    /\ UNCHANGED notManagerVars

DisableStrategy(name) ==
    /\ IF name \in DOMAIN manager.strategies
       THEN manager' = ManagerFrame(
                          DictSet(manager.strategies, name, FALSE),
                          IF InList(manager.active_strategies, name)
                          THEN ListRemove(manager.active_strategies, name)
                          ELSE manager.active_strategies,
                          manager.adds)
       ELSE manager' = ManagerFrame(manager.strategies,
                                    manager.active_strategies, manager.adds)
    /\ UNCHANGED notManagerVars

\* for strategy_name in self.active_strategies:
\*     strategy = self.strategies[strategy_name]      (outside the try)
\* the names whose strategy ran, and KeyError if a lookup failed
RECURSIVE RunStrategies(_, _, _)
RunStrategies(strategies, names, ran) ==
    IF names = <<>> THEN [ran |-> ran, ret |-> "signals"]
    ELSE IF Head(names) \notin DOMAIN strategies
         THEN [ran |-> ran, ret |-> "KeyError"]
         ELSE RunStrategies(strategies, Tail(names), Append(ran, Head(names)))

ManagerGenerateSignals ==
    LET r == RunStrategies(manager.strategies, manager.active_strategies, <<>>)
    IN  /\ manager' = [manager EXCEPT !.ran = r.ran, !.ret = r.ret]
        /\ UNCHANGED notManagerVars

----------------------------------------------------------------------------
(* Specifications *)


RestIdle == ThreadsIdle /\ RetryIdle /\ BotIdle /\ ManagerIdle

OthersIdle == batch = <<>> /\ SignalIdle /\ RiskIdle /\ RestIdle

Init == LedgerInit /\ OthersIdle

LedgerTrade ==
    \E symbol \in Symbols, side \in Sides, quantity \in Quantities,
       price \in Prices, fee \in Fees :
        AddTrade(symbol, side, quantity, price, fee)

LedgerTick == \E symbol \in Symbols, price \in Prices : UpdatePosition(symbol, price)

LedgerClose == \E symbol \in Symbols, price \in Prices : ClosePosition(symbol, price)

\* the ledger under trades, price ticks and closes
Next == LedgerTrade \/ LedgerTick \/ LedgerClose

Spec == Init /\ [][Next]_vars

\* the ledger under trades with quantity > 0 and price > 0, with the
\* portfolio statistics taken at any point as well
PositiveQuantities == {q \in Quantities : q > 0}
PositivePrices == {p \in Prices : p > 0}

LedgerPositiveTrade ==
    \E symbol \in Symbols, side \in Sides, quantity \in PositiveQuantities,
       price \in PositivePrices, fee \in Fees :
        AddTrade(symbol, side, quantity, price, fee)

StatsNext ==
    LedgerPositiveTrade \/ LedgerTick \/ LedgerClose \/ CalculatePortfolioStats

SpecStats == Init /\ [][StatsNext]_vars

\* the data file an earlier run left after BUY q1 @ p1 and SELL q2 @ p2 of one
\* symbol on a fresh ledger (no statistics were taken in that run)
PriorRunFile(symbol, q1, p1, q2, p2) ==
    LET bought == UpdatePositionFromTrade(<<>>, Trade(symbol, "BUY", q1, p1, 0, ""))
        sold == UpdatePositionFromTrade(bought.positions,
                                        Trade(symbol, "SELL", q2, p2, 0, ""))
    IN  SavePortfolioData(InitialBalance - q1 * p1 + q2 * p2,
                          Rat(InitialBalance), Rat(InitialBalance), RZero,
                          sold.positions, <<bought.trade, sold.trade>>)

\* the bot restarted on a data file that holds a SHORT: a LONG of 1 @ 1 was
\* sold with quantity 2
ReloadInit ==
    /\ \E price \in Prices :
          LedgerInitFrom(PriorRunFile("BTCUSDT", 1, 1, 2, price))
    /\ OthersIdle

SpecReload == ReloadInit /\ [][Next]_vars

\* the data file an earlier run left after one BUY on a fresh ledger
PriorBuyFile(symbol, quantity, price) ==
    LET bought == UpdatePositionFromTrade(<<>>,
                      Trade(symbol, "BUY", quantity, price, 0, ""))
    IN  SavePortfolioData(InitialBalance - quantity * price,
                          Rat(InitialBalance), Rat(InitialBalance), RZero,
                          bought.positions, <<bought.trade>>)

\* two threads each call add_trade once, on a fresh ledger or on one that
\* holds LONG 1 BTCUSDT @ 1
ThreadFiles == {NoFile, PriorBuyFile("BTCUSDT", 1, 1)}

ThreadInit ==
    /\ \E file \in ThreadFiles : LedgerInitFrom(file)
    /\ OthersIdle

ThreadNext ==
    \E t \in Threads :
        \/ \E symbol \in Symbols, side \in Sides, quantity \in ThreadQuantities,
              price \in ThreadPrices :
                ThreadCall(t, symbol, side, quantity, price)
        \/ ThreadCheck(t)
        \/ ThreadFetch(t)
        \/ ThreadBranch(t)
        \/ ThreadBuyValue(t)
        \/ ThreadBuyQuantity(t)
        \/ ThreadBuyWriteEntry(t)
        \/ ThreadBuyWriteQuantity(t)
        \/ ThreadSellCompare(t)
        \/ ThreadClosePnl(t)
        \/ ThreadPartPnl(t)
        \/ ThreadReadRealized(t)
        \/ ThreadWriteRealized(t)
        \/ ThreadCloseCompare(t)
        \/ ThreadFlipExcess(t)
        \/ ThreadFlipSide(t)
        \/ ThreadFlipQuantity(t)
        \/ ThreadFlipEntry(t)
        \/ ThreadDelete(t)
        \/ ThreadPartReadQuantity(t)
        \/ ThreadPartWriteQuantity(t)
        \/ ThreadAppend(t)
        \/ ThreadReadBalance(t)
        \/ ThreadWriteBalance(t)
        \/ ThreadSave(t)

SpecThreads == ThreadInit /\ [][ThreadNext]_vars

\* a retry helper called once, the wrapped function failing or succeeding
\* as it likes; every step is taken eventually (the helper runs on its own
\* thread of control and time.sleep returns)
RetryNext ==
    \/ \E impl \in RetryImpls, max_attempts \in 1..MaxAttempts :
          RetryCall(impl, max_attempts)
    \/ \E outcome \in Outcomes : RetryAttempt(outcome)
    \/ RetrySleep

SpecRetry == Init /\ [][RetryNext]_vars /\ WF_vars(RetryNext)

\* add_trade called with prices and quantities that are not all positive
InvalidQuantities == {-1, 0, 1}
InvalidPrices == {-1, 0, 1}

InvalidNext ==
    \E symbol \in Symbols, side \in Sides, quantity \in InvalidQuantities,
       price \in InvalidPrices, fee \in Fees :
        AddTrade(symbol, side, quantity, price, fee)

SpecInvalid == Init /\ [][InvalidNext]_vars

\* the strategy manager under any calls
ManagerNext ==
    \/ \E name \in StrategyNames, active \in BOOLEAN : AddStrategy(name, active)
    \/ \E name \in StrategyNames : RemoveStrategy(name)
    \/ \E name \in StrategyNames : EnableStrategy(name)
    \/ \E name \in StrategyNames : DisableStrategy(name)
    \/ ManagerGenerateSignals

SpecManager == Init /\ [][ManagerNext]_vars

\* one trading run of the bot, on a fresh ledger or on the data file of an
\* earlier run that bought the default quantity at 100
BotFiles == {NoFile, PriorBuyFile(DEFAULT_SYMBOL, DEFAULT_QUANTITY, 100)}

BotInit ==
    /\ \E file \in BotFiles : LedgerInitFrom(file)
    /\ OthersIdle

BotNext ==
    \/ \E program \in {"run_bot", "run_single_cycle"} : BotStart(program)
    \/ \E price \in FeedPrices : BotFetchEntry(price)
    \/ \E status \in OrderStatuses : BotPlaceOrder(status)
    \/ BotAddTrade
    \/ \E price \in TickPrices : BotFetchCurrent(price)
    \/ BotUpdatePosition
    \/ BotShouldExit
    \/ \E status \in OrderStatuses : BotCloseOrder(status)
    \/ BotClosePosition
    \/ BotPortfolioUpdate
    \/ BotStats
    \/ \E price \in TickPrices : CycleMarketData(price)
    \/ CycleUpdatePosition
    \/ \E sides \in SignalLists : CycleSignals(sides)
    \/ \E status \in OrderStatuses : CycleExecute(status)
    \/ CycleAddTrade

SpecBot == BotInit /\ [][BotNext]_vars

\* generate_signals applied to any batch of snapshots
SignalInit == LedgerInit /\ batch \in Batches /\ SignalIdle /\ RiskIdle /\ RestIdle

SignalNext == GenerateSignals

SpecSignals == SignalInit /\ [][SignalNext]_vars

\* the three exit checks applied to any prices, side and limits
RiskNext ==
    \E entry_price \in EntryPrices, current_price \in CurrentPrices,
       sl \in StopLossPcts, tp \in TakeProfitPcts :
        \/ \E side \in PositionSides :
              ShouldExit(entry_price, current_price, side, sl, tp)
        \/ CoreShouldExit(entry_price, current_price, sl, tp)
        \/ \E side \in PositionSides :
              ShouldExitPosition(entry_price, current_price, side, sl, tp)

SpecRisk == Init /\ [][RiskNext]_vars

----------------------------------------------------------------------------
(* Properties of generate_signals, checked under SpecSignals *)

Range(seq) == {seq[i] : i \in 1..Len(seq)}

Returned == signals.status = "returned"

ChangeOf(item) == Float(item.priceChangePercent)
VolumeOf(item) == Float(item.quoteVolume)

BuyCondition(item) == ChangeOf(item) > 3 /\ VolumeOf(item) > 10000000
SellCondition(item) == ChangeOf(item) < -3 /\ VolumeOf(item) > 10000000

\* C1: when generate_signals returns, a snapshot of the batch has a BUY
\* signal iff its change is above 3.0 and its quote volume above 10,000,000,
\* a SELL signal iff its change is below -3.0 and its quote volume above
\* 10,000,000, and no signal otherwise; a change of exactly +3 or -3 and a
\* volume of exactly 10,000,000 give no signal.
C1_SignalIffThresholds ==
    Returned =>
        \A i \in 1..Len(batch) :
            LET item == batch[i] IN
            /\ Signal(item) \in Range(signals.buy) <=> BuyCondition(item)
            /\ Signal(item) \in Range(signals.sell) <=> SellCondition(item)
            /\ (ChangeOf(item) \in {3, -3} \/ VolumeOf(item) = 10000000)
                   => Signal(item) \notin Range(signals.buy) \cup Range(signals.sell)

\* a returned batch holding a BUY at +4 and a snapshot at exactly +3 with a
\* volume above the bar, which has no signal
C1_Witness ==
    /\ Returned
    /\ Len(signals.buy) = 1
    /\ signals.sell = <<>>
    /\ \E i, j \in 1..Len(batch) :
          /\ ChangeOf(batch[i]) = 4 /\ VolumeOf(batch[i]) = 20000000
          /\ ChangeOf(batch[j]) = 3 /\ VolumeOf(batch[j]) = 20000000

DistinctSymbols ==
    \A i, j \in 1..Len(batch) : batch[i].symbol = batch[j].symbol => i = j

NoSignalCount ==
    Cardinality({i \in 1..Len(batch) :
                    ~BuyCondition(batch[i]) /\ ~SellCondition(batch[i])})

SymbolsOf(list) == {list[i].symbol : i \in 1..Len(list)}

\* C2: for a batch of valid snapshots with pairwise distinct symbols the BUY
\* signals, the SELL signals and the snapshots without a signal add up to the
\* batch, and no symbol is in both lists.
C2_SignalsPartitionBatch ==
    (Returned /\ DistinctSymbols) =>
        /\ Len(signals.buy) + Len(signals.sell) + NoSignalCount = Len(batch)
        /\ SymbolsOf(signals.buy) \cap SymbolsOf(signals.sell) = {}

\* a returned batch of two symbols, one with a BUY and one at the volume bar
\* exactly, which counts as a snapshot without a signal
C2_Witness ==
    /\ Returned /\ DistinctSymbols
    /\ Len(batch) = 2
    /\ Len(signals.buy) = 1
    /\ NoSignalCount = 1
    /\ \E i \in 1..Len(batch) :
          ChangeOf(batch[i]) = -4 /\ VolumeOf(batch[i]) = 10000000

\* the signals of list are those of snapshots taken from data in data's order
InInputOrder(list, data) ==
    \E f \in [1..Len(list) -> 1..Len(data)] :
        /\ \A k \in 1..Len(list) : list[k] = Signal(data[f[k]])
        /\ \A k, l \in 1..Len(list) : k < l => f[k] < f[l]

\* C3: the buy list and the sell list each keep the order of the input
\* snapshots, and an empty input gives two empty lists.
C3_InputOrderPreserved ==
    /\ Returned => InInputOrder(signals.buy, batch) /\ InInputOrder(signals.sell, batch)
    /\ (signals.status # "idle" /\ batch = <<>>) =>
            Returned /\ signals.buy = <<>> /\ signals.sell = <<>>

\* two different snapshots that both give a BUY, in the list in input order
C3_Witness ==
    /\ Returned
    /\ Len(batch) = 2
    /\ batch[1] # batch[2]
    /\ Signal(batch[1]) # Signal(batch[2])
    /\ signals.buy = <<Signal(batch[1]), Signal(batch[2])>>

WellFormed(item) == ~ItemRaises(item)

\* C4: a snapshot with a malformed field is skipped and the rest of the batch
\* is classified as if that snapshot were absent; the batch is not aborted.
C4_MalformedSnapshotSkipped ==
    (signals.status # "idle" /\ \E i \in 1..Len(batch) : ItemRaises(batch[i])) =>
        /\ Returned
        /\ signals.buy = generate_signals(SelectSeq(batch, WellFormed)).buy
        /\ signals.sell = generate_signals(SelectSeq(batch, WellFormed)).sell

----------------------------------------------------------------------------
(* Properties of the exit checks, checked under SpecRisk *)

\* the numerator of pnl_pct over entry_price
PnlOverEntry ==
    IF risk.side = "LONG" THEN risk.current_price - risk.entry_price
                          ELSE risk.entry_price - risk.current_price

\* pnl_pct <= -stop_loss_pct and pnl_pct >= take_profit_pct, for entry_price > 0
StopLossHolds == 100 * PnlOverEntry <= -(risk.sl * risk.entry_price)
TakeProfitHolds == 100 * PnlOverEntry >= risk.tp * risk.entry_price

SidedCall ==
    /\ risk.impl \in {"utils", "strategy"}
    /\ risk.side \in {"LONG", "SHORT"}
    /\ risk.entry_price > 0 /\ risk.current_price > 0

C6_ZeroEntryIsInvalidPrice ==
    (risk.impl # "none" /\ risk.entry_price = 0) => risk.result = "InvalidPriceError"

----------------------------------------------------------------------------
(* Properties of the ledger, checked under Spec *)

HasPosition(symbol) == symbol \in DOMAIN positions
HasPositionNext(symbol) == symbol \in DOMAIN positions'

\* every other symbol's position is as it was
OthersUnchanged(symbol) ==
    \A other \in Symbols \ {symbol} :
        /\ HasPositionNext(other) <=> HasPosition(other)
        /\ HasPosition(other) => positions'[other] = positions[other]

\* C7: a BUY for a symbol without a position opens a LONG position with the
\* trade's quantity and the trade's price as entry price, and changes no
\* other symbol's position.
C7_BuyOpensLong ==
    [][\A symbol \in Symbols, quantity \in Quantities, price \in Prices, fee \in Fees :
          (~HasPosition(symbol) /\ AddTrade(symbol, "BUY", quantity, price, fee)) =>
              /\ last'.ret = "True"
              /\ HasPositionNext(symbol)
              /\ positions'[symbol].symbol = symbol
              /\ positions'[symbol].side = "LONG"
              /\ positions'[symbol].quantity = quantity
              /\ positions'[symbol].entry_price = Rat(price)
              /\ OthersUnchanged(symbol)]_vars

\* a BUY has just opened a position while the other symbol holds one
C7_Witness ==
    /\ last.op = "add_trade" /\ last.side = "BUY" /\ last.ret = "True"
    /\ Len(trade_history) = 2
    /\ trade_history[1].symbol # last.symbol
    /\ trade_history[1].side = "BUY"
    /\ DOMAIN positions = Symbols
    /\ positions[last.symbol].quantity = last.quantity
    /\ positions[last.symbol].entry_price = Rat(last.price)

\* C8: a SELL for a symbol without a position is rejected: the caller gets a
\* failure and no position is created.
C8_SellWithoutPositionRejected ==
    [][\A symbol \in Symbols, quantity \in Quantities, price \in Prices, fee \in Fees :
          (~HasPosition(symbol) /\ AddTrade(symbol, "SELL", quantity, price, fee)) =>
              /\ last'.ret = "False"
              /\ ~HasPositionNext(symbol)]_vars

RECURSIVE SumQuantity(_, _)
SumQuantity(hist, symbol) ==
    IF hist = <<>> THEN 0
    ELSE (IF hist[1].symbol = symbol THEN hist[1].quantity ELSE 0)
         + SumQuantity(Tail(hist), symbol)

RECURSIVE SumCost(_, _)
SumCost(hist, symbol) ==
    IF hist = <<>> THEN 0
    ELSE (IF hist[1].symbol = symbol THEN hist[1].quantity * hist[1].price ELSE 0)
         + SumCost(Tail(hist), symbol)

TradesOf(symbol) == {i \in 1..Len(trade_history) : trade_history[i].symbol = symbol}

OnlyPositiveBuys(symbol) ==
    /\ TradesOf(symbol) # {}
    /\ \A i \in TradesOf(symbol) :
          trade_history[i].side = "BUY" /\ trade_history[i].quantity > 0

\* after BUY trades only: quantity = sum q_i, entry_price * quantity = sum q_i * p_i
VolumeWeightedEntry ==
    \A symbol \in Symbols :
        OnlyPositiveBuys(symbol) =>
            /\ HasPosition(symbol)
            /\ positions[symbol].side = "LONG"
            /\ positions[symbol].quantity = SumQuantity(trade_history, symbol)
            /\ RMul(positions[symbol].entry_price, Rat(positions[symbol].quantity))
                  = Rat(SumCost(trade_history, symbol))

\* a BUY on a LONG: entry_price' = (old_qty * old_entry + q * p) / (old_qty + q)
BuyAveragesIn ==
    \A symbol \in Symbols, quantity \in Quantities, price \in Prices, fee \in Fees :
        (/\ HasPosition(symbol)
         /\ positions[symbol].side = "LONG"
         /\ positions[symbol].quantity + quantity > 0
         /\ AddTrade(symbol, "BUY", quantity, price, fee)) =>
            /\ HasPositionNext(symbol)
            /\ positions'[symbol].quantity = positions[symbol].quantity + quantity
            /\ RMul(positions'[symbol].entry_price,
                    Rat(positions[symbol].quantity + quantity))
                  = RAdd(RMul(Rat(positions[symbol].quantity), positions[symbol].entry_price),
                         Rat(quantity * price))

\* C9: after n >= 1 BUY trades with positive quantities on a symbol that had
\* no position, the LONG position's quantity is the sum of the quantities and
\* its entry price the volume-weighted average price; each BUY on a LONG
\* sets entry_price to (old_qty*old_entry + q*p)/(old_qty + q).
C9_VolumeWeightedAverage == []VolumeWeightedEntry /\ [][BuyAveragesIn]_vars

\* two BUYs of one symbol at different prices, giving a fractional entry price
C9_Witness ==
    \E symbol \in Symbols :
        /\ OnlyPositiveBuys(symbol)
        /\ Cardinality(TradesOf(symbol)) >= 2
        /\ HasPosition(symbol)
        /\ positions[symbol].entry_price[2] > 1
        /\ last.op = "add_trade" /\ last.symbol = symbol

\* C10: a SELL on a LONG with a quantity below the position's is a partial
\* close: the trade's pnl and the increase of realized_pnl are
\* (trade.price - entry_price) * trade.quantity, the quantity drops by the
\* trade's quantity, the position stays LONG and keeps its entry price.
C10_PartialClose ==
    [][\A symbol \in Symbols, quantity \in Quantities, price \in Prices, fee \in Fees :
          (/\ HasPosition(symbol)
           /\ positions[symbol].side = "LONG"
           /\ quantity < positions[symbol].quantity
           /\ AddTrade(symbol, "SELL", quantity, price, fee)) =>
              LET old == positions[symbol]
                  delta == RMul(RSub(Rat(price), old.entry_price), Rat(quantity))
              IN  /\ last'.ret = "True"
                  /\ trade_history'[Len(trade_history')].pnl = delta
                  /\ HasPositionNext(symbol)
                  /\ positions'[symbol].realized_pnl = RAdd(old.realized_pnl, delta)
                  /\ positions'[symbol].quantity = old.quantity - quantity
                  /\ positions'[symbol].side = "LONG"
                  /\ positions'[symbol].entry_price = old.entry_price]_vars

\* LONG 2 @ 1, then SELL 1 @ 2: pnl 1, one unit left at entry price 1
C10_Witness ==
    /\ last.op = "add_trade" /\ last.side = "SELL" /\ last.ret = "True"
    /\ Len(trade_history) = 2
    /\ trade_history[1].symbol = last.symbol /\ trade_history[1].side = "BUY"
    /\ trade_history[1].quantity = 2 /\ trade_history[1].price = 1
    /\ last.quantity = 1 /\ last.price = 2
    /\ trade_history[2].pnl = Rat(1)
    /\ HasPosition(last.symbol)
    /\ positions[last.symbol].quantity = 1
    /\ positions[last.symbol].realized_pnl = Rat(1)
    /\ positions[last.symbol].entry_price = Rat(1)

\* C11: a SELL on a LONG with the position's own quantity is a full close:
\* the trade is accepted, its pnl is (trade.price - entry_price) * quantity,
\* and afterwards the symbol has no entry in the open-position map while the
\* other symbols keep theirs.
C11_FullClose ==
    [][\A symbol \in Symbols, quantity \in Quantities, price \in Prices, fee \in Fees :
          (/\ HasPosition(symbol)
           /\ positions[symbol].side = "LONG"
           /\ quantity = positions[symbol].quantity
           /\ AddTrade(symbol, "SELL", quantity, price, fee)) =>
              LET old == positions[symbol]
              IN  /\ last'.ret = "True"
                  /\ trade_history'[Len(trade_history')].pnl
                        = RMul(RSub(Rat(price), old.entry_price), Rat(quantity))
                  /\ ~HasPositionNext(symbol)
                  /\ OthersUnchanged(symbol)]_vars

\* LONG 2 @ 1, then SELL 2 @ 2: pnl 2 and no position left
C11_Witness ==
    /\ last.op = "add_trade" /\ last.side = "SELL" /\ last.ret = "True"
    /\ Len(trade_history) = 2
    /\ trade_history[1].symbol = last.symbol /\ trade_history[1].side = "BUY"
    /\ trade_history[1].quantity = 2 /\ trade_history[1].price = 1
    /\ last.quantity = 2 /\ last.price = 2
    /\ trade_history[2].pnl = Rat(2)
    /\ ~HasPosition(last.symbol)

\* C12: a SELL on a LONG with more than the position's quantity closes the
\* long at its own quantity, pnl = (trade.price - entry_price) * old quantity
\* (not * trade quantity), and leaves a SHORT of trade.quantity - old quantity
\* whose entry price is the trade's price.
C12_OversizedSellFlips ==
    [][\A symbol \in Symbols, quantity \in Quantities, price \in Prices, fee \in Fees :
          (/\ HasPosition(symbol)
           /\ positions[symbol].side = "LONG"
           /\ quantity > positions[symbol].quantity
           /\ AddTrade(symbol, "SELL", quantity, price, fee)) =>
              LET old == positions[symbol]
              IN  /\ last'.ret = "True"
                  /\ trade_history'[Len(trade_history')].pnl
                        = RMul(RSub(Rat(price), old.entry_price), Rat(old.quantity))
                  /\ HasPositionNext(symbol)
                  /\ positions'[symbol].side = "SHORT"
                  /\ positions'[symbol].quantity = quantity - old.quantity
                  /\ positions'[symbol].entry_price = Rat(price)]_vars

\* LONG 1 @ 1, then SELL 2 @ 2: pnl 1 (not 2), SHORT 1 @ 2
C12_Witness ==
    /\ last.op = "add_trade" /\ last.side = "SELL" /\ last.ret = "True"
    /\ Len(trade_history) = 2
    /\ trade_history[1].symbol = last.symbol /\ trade_history[1].side = "BUY"
    /\ trade_history[1].quantity = 1 /\ trade_history[1].price = 1
    /\ last.quantity = 2 /\ last.price = 2
    /\ trade_history[2].pnl = Rat(1)
    /\ HasPosition(last.symbol)
    /\ positions[last.symbol].side = "SHORT"
    /\ positions[last.symbol].quantity = 1
    /\ positions[last.symbol].entry_price = Rat(2)

----------------------------------------------------------------------------
(* Properties of the ledger with statistics, checked under SpecStats *)

PositiveTradesOnly ==
    \A i \in 1..Len(trade_history) :
        trade_history[i].quantity > 0 /\ trade_history[i].price > 0

\* C13: from an empty ledger, under any sequence of add_trade,
\* update_position, close_position and calculate_portfolio_stats calls whose
\* trades have quantity > 0 and price > 0, every open position has
\* quantity > 0 and entry_price > 0; none is retained with quantity 0.
C13_OpenPositionsPositive ==
    PositiveTradesOnly =>
        \A symbol \in DOMAIN positions :
            /\ positions[symbol].quantity > 0
            /\ RLt(RZero, positions[symbol].entry_price)

\* one symbol was bought and sold out completely and is gone from the map,
\* the other is still held
C13_Witness ==
    /\ PositiveTradesOnly
    /\ Len(trade_history) = 2
    /\ trade_history[1].side = "BUY" /\ trade_history[2].side = "SELL"
    /\ trade_history[1].symbol = trade_history[2].symbol
    /\ trade_history[1].quantity = trade_history[2].quantity
    /\ ~HasPosition(trade_history[1].symbol)
    /\ last.op = "calculate_portfolio_stats"

----------------------------------------------------------------------------
(* Properties of the ledger restarted on a SHORT, checked under SpecReload *)

\* C14: every accepted trade with a positive quantity on a symbol that has
\* an open position, LONG or SHORT, changes that position (averaging in,
\* partial close) or removes it; none leaves the position exactly as it was.
C14_TradeMutatesPosition ==
    [][\A symbol \in Symbols, side \in Sides, quantity \in Quantities,
         price \in Prices, fee \in Fees :
          (/\ HasPosition(symbol)
           /\ quantity > 0
           /\ AddTrade(symbol, side, quantity, price, fee)
           /\ last'.ret = "True") =>
              \/ ~HasPositionNext(symbol)
              \/ positions'[symbol] # positions[symbol]]_vars

----------------------------------------------------------------------------
(* Properties of update_position, checked under Spec *)

\* C15: update_position for a symbol without an open position returns None
\* (no exception leaves it) and changes neither the positions nor the trade
\* history nor the balance.
C15_UpdateWithoutPosition ==
    [][\A symbol \in Symbols, price \in Prices :
          (~HasPosition(symbol) /\ UpdatePosition(symbol, price)) =>
              /\ last'.ret = "None"
              /\ UNCHANGED <<positions, trade_history, balance>>]_vars

\* update_position has just answered None for one symbol while the other
\* symbol holds a position
C15_Witness ==
    /\ last.op = "update_position" /\ last.ret = "None"
    /\ ~HasPosition(last.symbol)
    /\ positions # <<>>
    /\ trade_history # <<>>

\* update_position(symbol, price) was the call made last and found a position
JustUpdated(symbol, price) ==
    /\ last.op = "update_position" /\ last.ret = "Position"
    /\ last.symbol = symbol /\ last.price = price

\* C16: update_position(symbol, p) called again with the same p, with no call
\* in between, leaves unrealized_pnl, current_price, quantity and entry_price
\* as the first call left them.
C16_UpdateIdempotent ==
    [][\A symbol \in Symbols, price \in Prices :
          (JustUpdated(symbol, price) /\ UpdatePosition(symbol, price)) =>
              /\ HasPositionNext(symbol)
              /\ positions'[symbol].unrealized_pnl = positions[symbol].unrealized_pnl
              /\ positions'[symbol].current_price = positions[symbol].current_price
              /\ positions'[symbol].quantity = positions[symbol].quantity
              /\ positions'[symbol].entry_price = positions[symbol].entry_price]_vars

\* a position was marked at a price away from its entry price: its
\* unrealized pnl is not zero and a second call at that price finds this state
C16_Witness ==
    \E symbol \in Symbols, price \in Prices :
        /\ JustUpdated(symbol, price)
        /\ HasPosition(symbol)
        /\ positions[symbol].current_price = price
        /\ positions[symbol].entry_price # Rat(price)
        /\ positions[symbol].unrealized_pnl # RZero

----------------------------------------------------------------------------
(* Properties of calculate_portfolio_stats, checked under SpecStats *)

StatsTaken == last.op = "calculate_portfolio_stats"

ClosingTrades == {i \in 1..Len(trade_history) : trade_history[i].pnl # RZero}
WinningTrades == {i \in 1..Len(trade_history) : RLt(RZero, trade_history[i].pnl)}

\* C17: win_rate is 100 * (trades with pnl > 0) / (closing trades, those
\* with pnl # 0); trades with pnl = 0 are not in the denominator, and
\* without closing trades win_rate is 0.
C17_WinRateOverClosingTrades ==
    StatsTaken =>
        IF ClosingTrades = {}
        THEN last.stats.win_rate = RZero
        ELSE RMul(last.stats.win_rate, Rat(Cardinality(ClosingTrades)))
                = Rat(100 * Cardinality(WinningTrades))

\* the terms of the sums, taken symbol by symbol and record by record
UnrealizedOf(symbol) ==
    IF HasPosition(symbol) THEN positions[symbol].unrealized_pnl ELSE RZero

MarketValueOf(symbol) ==
    IF HasPosition(symbol)
    THEN Rat(positions[symbol].quantity * positions[symbol].current_price)
    ELSE RZero

RECURSIVE PnlUpTo(_)
PnlUpTo(n) == IF n = 0 THEN RZero ELSE RAdd(PnlUpTo(n - 1), trade_history[n].pnl)

\* C18: calculate_portfolio_stats returns unrealized_pnl = the sum of
\* unrealized_pnl over the open positions, realized_pnl = the sum of pnl over
\* the whole trade history, and total_value = balance + the sum over the open
\* positions of quantity * current_price.
C18_StatsAggregates ==
    StatsTaken =>
        /\ last.stats.unrealized_pnl
              = RAdd(UnrealizedOf("BTCUSDT"), UnrealizedOf("ETHUSDT"))
        /\ last.stats.realized_pnl = PnlUpTo(Len(trade_history))
        /\ last.stats.total_value
              = RAdd(Rat(balance),
                     RAdd(MarketValueOf("BTCUSDT"), MarketValueOf("ETHUSDT")))

\* statistics taken with two open positions, one marked away from its entry
\* price
C18_Witness ==
    /\ StatsTaken
    /\ DOMAIN positions = Symbols
    /\ \E symbol \in Symbols :
          /\ positions[symbol].unrealized_pnl # RZero
          /\ Rat(positions[symbol].current_price) # positions[symbol].entry_price
    /\ last.stats.unrealized_pnl # RZero

\* (peak_equity - equity) / peak_equity
Drawdown(peak, eq) == RDiv(RSub(peak, eq), peak)

RMax(a, b) == IF RLt(a, b) THEN b ELSE a

DrawdownStep ==
    /\ RLe(peak_equity, peak_equity')
    /\ RLe(max_drawdown, max_drawdown')
    /\ IF last'.op = "calculate_portfolio_stats"
       THEN /\ RLe(equity', peak_equity')
            /\ max_drawdown' = RMax(max_drawdown, Drawdown(peak_equity', equity'))
       ELSE max_drawdown' = max_drawdown /\ peak_equity' = peak_equity

\* C19: peak_equity never decreases, after each calculate_portfolio_stats
\* call peak_equity >= equity, and max_drawdown never decreases and is the
\* largest (peak_equity - equity) / peak_equity seen at a
\* calculate_portfolio_stats call so far: 0 at the start, raised to the
\* call's drawdown when that is larger, untouched by every other operation.
C19_DrawdownAgainstRunningPeak ==
    /\ max_drawdown = RZero
    /\ [](StatsTaken => RLe(equity, peak_equity))
    /\ [][DrawdownStep]_vars

\* statistics taken after the equity recovered to its peak: the drawdown of
\* this call is 0 and max_drawdown still holds the earlier, larger one
C19_Witness ==
    /\ StatsTaken
    /\ RLt(RZero, max_drawdown)
    /\ equity = peak_equity
    /\ RLt(Rat(InitialBalance), peak_equity)

----------------------------------------------------------------------------
(* The trade history, checked under Spec *)

IsPrefix(s, t) == Len(s) <= Len(t) /\ \A i \in 1..Len(s) : t[i] = s[i]

Accepted == last'.op \in {"add_trade", "close_position"} /\ last'.ret = "True"

FullyClosed(symbol) == HasPosition(symbol) /\ ~HasPositionNext(symbol)

AppendOnly ==
    /\ IsPrefix(trade_history, trade_history')
    /\ IF Accepted THEN Len(trade_history') = Len(trade_history) + 1
                   ELSE trade_history' = trade_history
    /\ \A symbol \in Symbols :
          FullyClosed(symbol) =>
              LET closing == trade_history'[Len(trade_history')]
              IN  /\ closing.symbol = symbol
                  /\ closing.pnl = RealizedPnl(closing.price,
                                               positions[symbol].entry_price,
                                               positions[symbol].quantity)
                  /\ SumPnl(trade_history')
                        = RAdd(SumPnl(trade_history), closing.pnl)

\* C20: the trade history is append-only: after any ledger operation the
\* old history is a prefix of the new one, an accepted add_trade appends
\* exactly one record and nothing else appends any, and when a position is
\* fully closed its realized pnl stays in the total over the trade history.
C20_HistoryAppendOnly == [][AppendOnly]_vars

\* a position was bought and closed with a profit: it is gone from the map
\* and the history total holds its pnl
C20_Witness ==
    /\ Len(trade_history) = 2
    /\ last.op = "close_position" /\ last.ret = "True"
    /\ trade_history[1].side = "BUY" /\ trade_history[1].quantity > 0
    /\ trade_history[2].side = "SELL"
    /\ ~HasPosition(last.symbol)
    /\ RLt(RZero, trade_history[2].pnl)
    /\ SumPnl(trade_history) = trade_history[2].pnl

----------------------------------------------------------------------------
(* add_trade from two threads, checked under SpecThreads *)

\* the ledger the two calls started from
StartLedger ==
    LoadPortfolioData(CHOOSE file \in ThreadFiles :
                          Len(LoadPortfolioData(file).trade_history) = loaded)

\* add_trade run to its end with no other call in between
SerialTrade(ledger, f) ==
    LET r == UpdatePositionFromTrade(ledger.positions,
                 Trade(f.symbol, f.side, f.quantity, f.price, 0, ""))
    IN  IF r.raised THEN ledger
        ELSE [ledger EXCEPT
                !.positions = r.positions,
                !.trade_history = Append(@, r.trade),
                !.balance = IF f.side = "BUY" THEN @ - f.quantity * f.price
                                              ELSE @ + f.quantity * f.price]

Serial(first, second) ==
    SerialTrade(SerialTrade(StartLedger, threads[first]), threads[second])

SerialOrders == {<<"t1", "t2">>, <<"t2", "t1">>}

BothDone == \A t \in Threads : threads[t].pc = "done"

SameSymbol == threads["t1"].symbol = threads["t2"].symbol

\* C21: two concurrent, unsynchronized add_trade calls on two different
\* symbols end in the positions, the balance and the set of trade records of
\* one of the two serial orders.
C21_DifferentSymbolsSerializable ==
    (BothDone /\ ~SameSymbol) =>
        \E o \in SerialOrders :
            /\ positions = Serial(o[1], o[2]).positions
            /\ balance = Serial(o[1], o[2]).balance
            /\ Range(trade_history) = Range(Serial(o[1], o[2]).trade_history)

\* both calls were BUYs that added to the LONG and took total_quantity from
\* the same position.quantity: neither saw the other's write
StaleBuys ==
    /\ BothDone /\ SameSymbol
    /\ \A t \in Threads : threads[t].side = "BUY" /\ threads[t].total_quantity > 0
    /\ threads["t1"].base_quantity = threads["t2"].base_quantity

\* both calls were SELLs that closed the same LONG, each computing the
\* realized pnl of the whole position, and both were recorded
DoubleClose ==
    /\ BothDone /\ SameSymbol
    /\ threads["t1"].symbol \in DOMAIN StartLedger.positions
    /\ \A t \in Threads :
          /\ threads[t].side = "SELL" /\ threads[t].closing
          /\ threads[t].ret = "True"
          /\ threads[t].realized_pnl # RZero
          /\ threads[t].realized_pnl =
                RealizedPnl(threads[t].price,
                            StartLedger.positions[threads[t].symbol].entry_price,
                            StartLedger.positions[threads[t].symbol].quantity)

\* C22: add_trade on one symbol is a read-modify-write that is not atomic:
\* when two BUYs on the same LONG both read the quantity before either wrote
\* it, the final quantity differs from that of both serial orders (one
\* update is lost), and when two SELLs both close the same LONG and are both
\* recorded, the realized pnl in the trade history is counted twice and
\* differs from that of both serial orders.
C22_SameSymbolRaces ==
    /\ StaleBuys =>
          \A o \in SerialOrders :
              /\ threads["t1"].symbol \in DOMAIN positions
              /\ positions[threads["t1"].symbol].quantity
                    # Serial(o[1], o[2]).positions[threads["t1"].symbol].quantity
    /\ DoubleClose =>
          \A o \in SerialOrders :
              SumPnl(trade_history) # SumPnl(Serial(o[1], o[2]).trade_history)

\* LONG 1 @ 1, two BUYs of 1 and 2 that both read quantity 1: the position
\* ends with less than the 4 units both serial orders give
C22_Witness ==
    /\ StaleBuys
    /\ threads["t1"].quantity = 1 /\ threads["t2"].quantity = 2
    /\ threads["t1"].base_quantity = 1
    /\ threads["t1"].ret = "True" /\ threads["t2"].ret = "True"
    /\ positions["BTCUSDT"].quantity < 4
    /\ Serial("t1", "t2").positions["BTCUSDT"].quantity = 4

\* two SELLs of 2 @ 2 on LONG 1 @ 1, both recorded with pnl 1
DoubleCloseState ==
    /\ DoubleClose
    /\ SumPnl(trade_history) = Rat(2)

----------------------------------------------------------------------------
(* Properties of the retry helpers, checked under SpecRetry *)

RetryDone == retrying.pc \in {"returned", "raised"}

Failed(calls) == \A i \in 1..Len(calls) : calls[i].raised

RetrySafety ==
    LET f == retrying
        n == Len(f.calls)
    IN  /\ n <= f.max_attempts
        /\ f.pc = "returned" =>
              /\ n >= 1
              /\ ~f.calls[n].raised
              /\ f.result = f.calls[n]
              /\ Failed(SubSeq(f.calls, 1, n - 1))
        /\ f.pc = "raised" =>
              /\ n = f.max_attempts
              /\ Failed(f.calls)
              /\ f.result = f.calls[n]
        /\ (RetryDone /\ Failed(f.calls)) => f.pc = "raised"
        /\ (f.pc \in {"try", "sleep"}) => Failed(f.calls)

\* C25: retry and retry_network call the wrapped function until its first
\* success and return that result with no further call; they make at most
\* max_attempts calls; when every attempt raised they end by raising the
\* last exception, never by returning a value; and they always end.
C25_RetryUntilSuccess ==
    /\ []RetrySafety
    /\ [][RetryDone => UNCHANGED retrying]_vars
    /\ (retrying.pc # "idle") ~> RetryDone

\* the test's case: the first call fails, the second returns 42, no third call
C25_Witness ==
    /\ retrying.pc = "returned"
    /\ retrying.max_attempts = 3
    /\ retrying.calls = <<Raises("ConnectionError"), Returns("42")>>
    /\ retrying.result = Returns("42")

----------------------------------------------------------------------------
(* The order of the bot's trading run, checked under SpecBot *)

ExitDecisions == {"STOP_LOSS", "TAKE_PROFIT"}

TradeAdded == last'.op = "add_trade" /\ Len(trade_history') > Len(trade_history)
RiskEvaluated == risk' # risk
CloseInvoked == last'.op = "close_position" /\ last.op # "close_position"

\* C26: in a trading run a trade is added to the ledger only when the order
\* sink answered success for it, should_exit is evaluated on the tick price
\* right after update_position was called with that price, and close_position
\* is called only after should_exit gave STOP_LOSS or TAKE_PROFIT, never None
C26_RunOrder ==
    [][/\ TradeAdded => bot.order = "success"
       /\ RiskEvaluated =>
             /\ last.op = "update_position"
             /\ last.symbol = DEFAULT_SYMBOL
             /\ last.price = bot.current_price
             /\ risk'.current_price = bot.current_price
             /\ risk'.entry_price = bot.entry_price
       /\ CloseInvoked =>
             /\ risk.result = bot.decision
             /\ bot.decision \in ExitDecisions]_vars

\* a run that bought, saw the stop-loss price and closed the position
C26_Witness ==
    /\ bot.program = "run_bot"
    /\ bot.order = "success"
    /\ bot.decision = "STOP_LOSS"
    /\ last.op = "close_position"
    /\ last.ret = "True"
    /\ Len(trade_history) = loaded + 2

\* a run whose tick gave no exit decision: the position stays open
BotHeld ==
    /\ bot.program = "run_bot"
    /\ bot.pc = "end"
    /\ bot.decision = "None"
    /\ DEFAULT_SYMBOL \in DOMAIN positions

----------------------------------------------------------------------------
(* add_trade with a price or quantity that is not positive, checked under   *)
(* SpecInvalid                                                               *)

InvalidCall == last'.op = "add_trade" /\ (last'.price <= 0 \/ last'.quantity <= 0)

\* C23: an add_trade whose price is zero or negative, or whose quantity is
\* not positive, returns an error to its caller and leaves positions, trade
\* history and balance as they were
C23_InvalidTradeRejected ==
    [][InvalidCall =>
         /\ last'.ret = "False"
         /\ UNCHANGED <<positions, trade_history, balance>>]_vars

\* a trade at price 0 went into the history and opened a position
ZeroPriceRecorded ==
    /\ last.op = "add_trade"
    /\ last.price = 0
    /\ last.ret = "True"
    /\ last.symbol \in DOMAIN positions
    /\ trade_history # <<>>
    /\ trade_history[Len(trade_history)].price = 0

----------------------------------------------------------------------------
(* The data file read back, checked under SpecStats *)

\* the last call ended with _save_portfolio_data
Saved ==
    \/ last.op \in {"add_trade", "close_position"} /\ last.ret = "True"
    \/ last.op = "update_position" /\ last.ret = "Position"

----------------------------------------------------------------------------
(* close_position on a position of either side, checked under SpecReload *)

\* C27: close_position on a symbol with an open position, LONG or SHORT, that
\* returns True leaves no position for the symbol and appends one closing
\* trade of the position's quantity; on a symbol without a position it
\* returns False and changes nothing
C27_CloseLeavesNoPosition ==
    [][\A symbol \in Symbols, price \in Prices :
         ClosePosition(symbol, price) =>
           IF symbol \in DOMAIN positions
           THEN last'.ret = "True" =>
                  /\ symbol \notin DOMAIN positions'
                  /\ Len(trade_history') = Len(trade_history) + 1
                  /\ trade_history'[Len(trade_history')].quantity =
                        positions[symbol].quantity
           ELSE /\ last'.ret = "False"
                /\ UNCHANGED <<positions, trade_history, balance, equity,
                               peak_equity, max_drawdown, data_file>>]_vars

\* close_position answered True and the SHORT is still open
ShortSurvivesClose ==
    /\ last.op = "close_position"
    /\ last.ret = "True"
    /\ last.symbol \in DOMAIN positions
    /\ positions[last.symbol].side = "SHORT"

----------------------------------------------------------------------------
(* Cash accounting, checked under Spec *)

\* what the trades of a history paid and received
RECURSIVE CashFlow(_)
CashFlow(hist) ==
    IF hist = <<>> THEN 0
    ELSE LET trade == hist[Len(hist)]
             trade_value == trade.quantity * trade.price
         IN  CashFlow(SubSeq(hist, 1, Len(hist) - 1))
               + (IF trade.side = "BUY" THEN -(trade_value + trade.fee)
                                        ELSE trade_value - trade.fee)

BalanceMatchesHistory == balance = InitialBalance + CashFlow(trade_history)

\* the call just made was an add_trade (directly or from close_position)
\* whose trade matched a branch of _update_position_from_trade: a BUY opened
\* a position, or a BUY or SELL met a LONG
TradeApplied ==
    /\ last'.op \in {"add_trade", "close_position"}
    /\ IF last'.symbol \in DOMAIN positions
       THEN positions[last'.symbol].side = "LONG"
       ELSE last'.side = "BUY"

\* C28: from a fresh ledger the balance is always the initial balance minus
\* quantity * price + fee of every BUY in the history plus quantity * price -
\* fee of every SELL, and balance and history change only in an add_trade
\* that applied its trade to a position
C28_CashAccounting ==
    /\ []BalanceMatchesHistory
    /\ [][(balance' # balance \/ trade_history' # trade_history) => TradeApplied]_vars

\* a SELL for a symbol without a position was paid out and recorded
SellWithoutPosition ==
    /\ last.op = "add_trade"
    /\ last.side = "SELL"
    /\ last.ret = "True"
    /\ positions = <<>>
    /\ Len(trade_history) = 1
    /\ balance > InitialBalance

----------------------------------------------------------------------------
(* The stored unrealized pnl of every position, checked under Spec *)

\* C29: in every state each open position's unrealized_pnl is
\* (current_price - entry_price) * quantity for a LONG and
\* (entry_price - current_price) * quantity for a SHORT, also right after
\* add_trade changed its quantity, entry price or side
C29_UnrealizedConsistent ==
    \A symbol \in DOMAIN positions :
        positions[symbol].unrealized_pnl =
            UnrealizedPnl(positions[symbol], positions[symbol].current_price)

\* a partial SELL left the unrealized pnl of the larger quantity in place
StaleUnrealizedPnl ==
    /\ last.op = "add_trade"
    /\ last.side = "SELL"
    /\ last.ret = "True"
    /\ last.symbol \in DOMAIN positions
    /\ LET position == positions[last.symbol]
       IN  /\ position.side = "LONG"
           /\ position.quantity = 1
           /\ position.unrealized_pnl = Rat(2)

----------------------------------------------------------------------------
(* The strategy manager's list of active names, checked under SpecManager *)

NoDuplicates(list) ==
    \A i, j \in 1..Len(list) : i # j => list[i] # list[j]

\* C30: after any calls of add_strategy, remove_strategy, enable_strategy and
\* disable_strategy the list of active names has no name twice and only
\* names registered in strategies, so generate_signals never fails on a
\* lookup and runs no strategy twice
C30_ActiveListWellFormed ==
    /\ NoDuplicates(manager.active_strategies)
    /\ \A i \in 1..Len(manager.active_strategies) :
          manager.active_strategies[i] \in DOMAIN manager.strategies
    /\ manager.ret # "KeyError"
    /\ NoDuplicates(manager.ran)

\* generate_signals ran one strategy twice
RanTwice == manager.ret = "signals" /\ ~NoDuplicates(manager.ran)

\* generate_signals raised KeyError for a name left in the list
LookupFailed == manager.ret = "KeyError"

====
